---- MODULE Spec2Model ----
(***************************************************************************)
(* Verification model of the knowledge-base retrieval core of rfi_parser:  *)
(* the document chunker, the per-project vector store, the knowledge base  *)
(* orchestrator and the content cache.                                     *)
(*                                                                         *)
(* Texts are sequences of one-character strings.  Positions inside the     *)
(* chunker operators are Python positions (0-based, end-exclusive).        *)
(***************************************************************************)
EXTENDS Integers, Sequences, FiniteSets, TLC

----------------------------------------------------------------------------
(* Small helpers (not program code).                                       *)

SetMin(S) == CHOOSE x \in S : \A y \in S : x <= y
SetMax(S) == 0 - SetMin({0 - x : x \in S})
Rep(c, n) == [i \in 1..n |-> c]
SeqRange(s) == {s[i] : i \in 1..Len(s)}

----------------------------------------------------------------------------
(* Python string primitives used by the chunker.                           *)

Whitespace == {" ", "\n", "\t", "\r"}
Digits == {"0", "1", "2", "3", "4", "5", "6", "7", "8", "9"}
Upper == {"A", "B", "C", "D", "E", "F", "G", "H", "I", "J", "K", "L", "M",
          "N", "O", "P", "Q", "R", "S", "T", "U", "V", "W", "X", "Y", "Z"}

\* Normalisation of a slice bound: negative bounds count from the end,
\* and the result is clipped to 0..n.
PyIdx(i, n) ==
    IF i < 0 THEN (IF i + n < 0 THEN 0 ELSE i + n)
    ELSE IF i > n THEN n ELSE i

\* text[a:b]
Slice(text, a, b) ==
    LET n == Len(text)
        lo == PyIdx(a, n)
        hi == PyIdx(b, n)
    IN IF lo >= hi THEN << >> ELSE SubSeq(text, lo + 1, hi)

\* text[p] with p a 0-based position; "" outside the text
CharAt(text, p) == IF p >= 0 /\ p < Len(text) THEN text[p + 1] ELSE ""

\* text.strip()
Strip(text) ==
    LET idx == {i \in 1..Len(text) : text[i] \notin Whitespace}
    IN IF idx = {} THEN << >> ELSE SubSeq(text, SetMin(idx), SetMax(idx))

\* text.rfind('. ', lo, hi): highest position i with lo <= i, i + 2 <= hi and
\* text[i:i+2] == '. ', or -1
RFindDotSpace(text, a, b) ==
    LET n == Len(text)
        lo == PyIdx(a, n)
        hi == PyIdx(b, n)
        hits == {i \in lo..(hi - 2) : text[i + 1] = "." /\ text[i + 2] = " "}
    IN IF hits = {} THEN -1 ELSE SetMax(hits)

\* end of the maximal run of characters of class cls that starts at p
RunEnd(text, p, cls) ==
    LET n == Len(text)
        stops == {i \in p..(n - 1) : text[i + 1] \notin cls}
    IN IF p >= n THEN n ELSE IF stops = {} THEN n ELSE SetMin(stops)

----------------------------------------------------------------------------
(* The section header pattern of _chunk_specification:                     *)
(*   ^(PART\s+\d+[A-Z\s]*|\d+\.\d+(?:\.\d+)?(?:\.[A-Z])?\.?\s+[A-Z])       *)
(* Each Match operator returns the end of the match that starts at p, or   *)
(* -1 when the alternative does not match there.                           *)

\* PART\s+\d+[A-Z\s]*
MatchPartHeader(text, p) ==
    IF Slice(text, p, p + 4) # <<"P", "A", "R", "T">> THEN -1
    ELSE LET a == RunEnd(text, p + 4, Whitespace)
             b == RunEnd(text, a, Digits)
         IN IF a = p + 4 \/ b = a THEN -1
            ELSE RunEnd(text, b, Upper \cup Whitespace)

\* \s+[A-Z]
MatchHeaderTail(text, q) ==
    LET w == RunEnd(text, q, Whitespace)
    IN IF q >= 0 /\ w > q /\ CharAt(text, w) \in Upper THEN w + 1 ELSE -1

\* \d+\.\d+(?:\.\d+)?(?:\.[A-Z])?\.?\s+[A-Z], the optional groups tried
\* greedily (taken first) in the order the regex engine backtracks
MatchNumberHeader(text, p) ==
    LET a == RunEnd(text, p, Digits)
        b == RunEnd(text, a + 1, Digits)
        G1(q) == IF CharAt(text, q) = "." /\ RunEnd(text, q + 1, Digits) > q + 1
                 THEN RunEnd(text, q + 1, Digits) ELSE -1
        G2(q) == IF q >= 0 /\ CharAt(text, q) = "." /\ CharAt(text, q + 1) \in Upper
                 THEN q + 2 ELSE -1
        Dot(q) == IF q >= 0 /\ CharAt(text, q) = "." THEN q + 1 ELSE -1
        AfterG2(q) ==
            IF q < 0 THEN -1
            ELSE IF MatchHeaderTail(text, Dot(q)) >= 0
                 THEN MatchHeaderTail(text, Dot(q))
                 ELSE MatchHeaderTail(text, q)
        AfterG1(q) ==
            IF q < 0 THEN -1
            ELSE IF AfterG2(G2(q)) >= 0 THEN AfterG2(G2(q)) ELSE AfterG2(q)
    IN IF a = p \/ CharAt(text, a) # "." \/ b = a + 1 THEN -1
       ELSE IF AfterG1(G1(b)) >= 0 THEN AfterG1(G1(b)) ELSE AfterG1(b)

\* one attempt of section_pattern at position p (MULTILINE ^)
MatchSectionHeader(text, p) ==
    IF ~(p = 0 \/ CharAt(text, p - 1) = "\n") THEN -1
    ELSE IF MatchPartHeader(text, p) >= 0 THEN MatchPartHeader(text, p)
    ELSE MatchNumberHeader(text, p)

\* list(section_pattern.finditer(text)): the non-overlapping matches from
\* left to right, as records [start, end]
RECURSIVE FindSectionHeaders(_, _)
FindSectionHeaders(text, pos) ==
    LET n == Len(text)
        starts == {i \in pos..(n - 1) : MatchSectionHeader(text, i) >= 0}
    IN IF pos >= n \/ starts = {} THEN << >>
       ELSE LET s == SetMin(starts)
                e == MatchSectionHeader(text, s)
            IN <<[start |-> s, end |-> e]>> \o FindSectionHeaders(text, e)

----------------------------------------------------------------------------
(* DocumentChunker.  A chunker configuration is a record                   *)
(* [chunk_size, chunk_overlap, min_chunk_size].                            *)

\* Optional values that are None in the program
NoneText == <<"<None>">>
NonePage == -1

\* the defaults of DocumentChunker.__init__
DefaultChunkerConfig ==
    [chunk_size |-> 1000, chunk_overlap |-> 200, min_chunk_size |-> 100]

\* how far past the target end _split_by_size looks for a sentence end
SentenceWindow == 100

Chunk(text, file_id, filename, chunk_index, section_title) ==
    [text |-> text, source_file_id |-> file_id, source_filename |-> filename,
     chunk_index |-> chunk_index, section_title |-> section_title,
     page_number |-> NonePage]

\* the while loop of _split_by_size, from position start with the chunks
\* emitted so far
RECURSIVE SplitBySizeLoop(_, _, _, _, _, _)
SplitBySizeLoop(cfg, text, file_id, filename, start, chunks) ==
    IF ~(start < Len(text)) THEN chunks
    ELSE LET end0 == start + cfg.chunk_size
             break_point == RFindDotSpace(text, start + cfg.chunk_size \div 2,
                                          end0 + SentenceWindow)
             end == IF end0 < Len(text) /\ break_point > start
                    THEN break_point + 1 ELSE end0
             chunk_text == Strip(Slice(text, start, end))
             chunks1 == IF Len(chunk_text) >= cfg.min_chunk_size
                        THEN Append(chunks, Chunk(chunk_text, file_id, filename,
                                                  Len(chunks), NoneText))
                        ELSE chunks
         IN SplitBySizeLoop(cfg, text, file_id, filename,
                            end - cfg.chunk_overlap, chunks1)

_split_by_size(cfg, text, file_id, filename) ==
    SplitBySizeLoop(cfg, text, file_id, filename, 0, << >>)

\* re.split(r'\n\s*\n', text): a separator starts at a newline and extends
\* over the following whitespace up to its last newline
ParagraphSeparatorEnd(text, p) ==
    LET w == RunEnd(text, p + 1, Whitespace)
        nls == {i \in (p + 1)..(w - 1) : text[i + 1] = "\n"}
    IN IF CharAt(text, p) # "\n" \/ nls = {} THEN -1 ELSE SetMax(nls) + 1

RECURSIVE SplitParagraphs(_, _)
SplitParagraphs(text, pos) ==
    LET n == Len(text)
        seps == {i \in pos..(n - 1) : ParagraphSeparatorEnd(text, i) >= 0}
    IN IF seps = {} THEN <<Slice(text, pos, n)>>
       ELSE LET s == SetMin(seps)
            IN <<Slice(text, pos, s)>>
               \o SplitParagraphs(text, ParagraphSeparatorEnd(text, s))

\* the for loop of _chunk_generic over paragraphs[i..], followed by the
\* flush of the last buffer
RECURSIVE ChunkGenericLoop(_, _, _, _, _, _, _)
ChunkGenericLoop(cfg, paragraphs, i, file_id, filename, current_chunk, chunks) ==
    IF i > Len(paragraphs)
    THEN IF current_chunk # << >> /\ Len(current_chunk) >= cfg.min_chunk_size
         THEN Append(chunks, Chunk(current_chunk, file_id, filename,
                                   Len(chunks), NoneText))
         ELSE chunks
    ELSE LET para == Strip(paragraphs[i])
         IN IF para = << >>
            THEN ChunkGenericLoop(cfg, paragraphs, i + 1, file_id, filename,
                                  current_chunk, chunks)
            ELSE IF Len(current_chunk) + Len(para) > cfg.chunk_size
                    /\ current_chunk # << >>
            THEN LET chunks1 ==
                         IF Len(current_chunk) >= cfg.min_chunk_size
                         THEN Append(chunks, Chunk(current_chunk, file_id, filename,
                                                   Len(chunks), NoneText))
                         ELSE chunks
                     overlap_start ==
                         IF Len(current_chunk) - cfg.chunk_overlap > 0
                         THEN Len(current_chunk) - cfg.chunk_overlap ELSE 0
                 IN ChunkGenericLoop(cfg, paragraphs, i + 1, file_id, filename,
                        Slice(current_chunk, overlap_start, Len(current_chunk))
                            \o <<"\n", "\n">> \o para,
                        chunks1)
            ELSE ChunkGenericLoop(cfg, paragraphs, i + 1, file_id, filename,
                        Strip(current_chunk \o <<"\n", "\n">> \o para), chunks)

_chunk_generic(cfg, text, file_id, filename) ==
    ChunkGenericLoop(cfg, SplitParagraphs(text, 0), 1, file_id, filename,
                     << >>, << >>)

\* sub_chunks of an oversized section, renumbered and titled as they are
\* appended to chunks
RECURSIVE AppendSubChunks(_, _, _, _)
AppendSubChunks(chunks, sub_chunks, j, section_title) ==
    IF j > Len(sub_chunks) THEN chunks
    ELSE AppendSubChunks(
             Append(chunks, [sub_chunks[j] EXCEPT !.section_title = section_title,
                                                  !.chunk_index = Len(chunks)]),
             sub_chunks, j + 1, section_title)

\* the for loop of _chunk_specification over matches[i..]
RECURSIVE ChunkSectionsLoop(_, _, _, _, _, _, _)
ChunkSectionsLoop(cfg, text, matches, i, file_id, filename, chunks) ==
    IF i > Len(matches) THEN chunks
    ELSE LET start == matches[i].start
             end == IF i + 1 <= Len(matches) THEN matches[i + 1].start ELSE Len(text)
             section_text == Strip(Slice(text, start, end))
             section_title == Strip(Slice(text, matches[i].start, matches[i].end))
             chunks1 ==
                 IF Len(section_text) > cfg.chunk_size * 2
                 THEN AppendSubChunks(chunks,
                          _split_by_size(cfg, section_text, file_id, filename),
                          1, section_title)
                 ELSE IF Len(section_text) >= cfg.min_chunk_size
                 THEN Append(chunks, Chunk(section_text, file_id, filename,
                                           Len(chunks), section_title))
                 ELSE chunks
         IN ChunkSectionsLoop(cfg, text, matches, i + 1, file_id, filename, chunks1)

_chunk_specification(cfg, text, file_id, filename) ==
    LET matches == FindSectionHeaders(text, 0)
    IN IF matches = << >> THEN _chunk_generic(cfg, text, file_id, filename)
       ELSE ChunkSectionsLoop(cfg, text, matches, 1, file_id, filename, << >>)

chunk_document(cfg, text, file_id, filename, content_type) ==
    IF text = << >> \/ Len(Strip(text)) < cfg.min_chunk_size THEN << >>
    ELSE IF content_type = "specification"
         THEN _chunk_specification(cfg, text, file_id, filename)
         ELSE _chunk_generic(cfg, text, file_id, filename)

----------------------------------------------------------------------------
(* ChromaVectorStore and KnowledgeBase.                                    *)
(*                                                                         *)
(* The backing index is one set of records per collection name.  A record  *)
(* is [id, document, metadata, added_via]; added_via is a history field    *)
(* that remembers the project whose knowledge base added the record.  The  *)
(* id f"{file_id}_{chunk_index}" is the pair <<file_id, chunk_index>>.     *)
(* Scores and distances are fixed-point numbers with four decimals:        *)
(* ScoreOne stands for 1.0.                                                *)

VARIABLES store, kbLast

\* two calls of index_document that run at the same time, each at its place in
\* the code
VARIABLES reindex

\* the state of the content cache, described with its operations below
VARIABLES files, now, _cache, _cache_size_bytes, disk, thr, useOrder, evicted

\* what the last step of the cache did to the in-memory map and to the file
\* system, each with whether self._lock was held
VARIABLES lockLog

\* the state of one embed_batch call of the embedding service, described
\* with its steps below
VARIABLES texts, embeddings, futures, yielded, backend_calls, batch

\* the last call of the chunker on its own, and one call of _split_by_size
\* taken one iteration of its loop at a time
VARIABLES chunkLast, split

\* the metadata index: the rows of the table files in the order of their
\* insertion, the rows of scan_history, the stat of the files of the tree,
\* and the last call with what it returned
VARIABLES catalog, scan_history, tree_stat, mdLast

kbvars == <<store, kbLast, reindex>>
cachevars == <<files, now, _cache, _cache_size_bytes, disk, thr, useOrder, evicted,
               lockLog>>
embvars == <<texts, embeddings, futures, yielded, backend_calls, batch>>
chunkvars == <<chunkLast, split>>
mdvars == <<catalog, scan_history, tree_stat, mdLast>>
outside_kb == <<cachevars, embvars, chunkvars, mdvars, reindex>>
outside_cache == <<kbvars, embvars, chunkvars, mdvars>>
outside_embeddings == <<kbvars, cachevars, chunkvars, mdvars>>
outside_chunker == <<kbvars, cachevars, embvars, mdvars>>
outside_metadata == <<kbvars, cachevars, embvars, chunkvars>>
vars == <<store, kbLast, files, now, _cache, _cache_size_bytes, disk, thr, useOrder,
          evicted, texts, embeddings, futures, yielded, backend_calls, batch,
          chunkLast, split, catalog, scan_history, tree_stat, mdLast, lockLog, reindex>>

Projects == {1, 2}
FileIds == {1, 2}
FileName == "spec.pdf"

\* The chunker of the knowledge base.  KnowledgeBase.__init__ passes
\* chunk_size and chunk_overlap on to DocumentChunker; the model runs the
\* chunker with all three lengths of DefaultChunkerConfig scaled down so
\* that the documents below stay short.
KBChunkerConfig ==
    [chunk_size |-> 12, chunk_overlap |-> 2, min_chunk_size |-> 10]

\* the documents handed to index_document: blank (rejected), short (below
\* min_chunk_size), paragraphs (three generic chunks), sections (two
\* section chunks), long (one oversized section, split by size in three)
ContentText ==
    [blank      |-> <<" ", "\n", " ">>,
     short      |-> Rep("a", 5),
     paragraphs |-> Rep("c", 11) \o <<"\n", "\n">> \o Rep("d", 11)
                    \o <<"\n", " ", "\n">> \o Rep("e", 11),
     sections   |-> <<"1", ".", "1", " ", "S">> \o Rep("s", 8) \o <<"\n">>
                    \o <<"1", ".", "2", " ", "R">> \o Rep("r", 8),
     long       |-> <<"2", ".", "1", " ", "L">> \o Rep("x", 10) \o <<".", " ">>
                    \o Rep("y", 17)]
ContentIds == DOMAIN ContentText

\* the (content, is_specification) arguments index_document is called with
IndexInputs ==
    {<<"blank", FALSE>>, <<"short", TRUE>>, <<"paragraphs", FALSE>>,
     <<"sections", TRUE>>, <<"long", TRUE>>}

QueryText == [q1 |-> Rep("q", 5), q2 |-> Rep("q", 12)]
QueryIds == DOMAIN QueryText

ScoreOne == 10000

\* f"project_{project_id}"
CollectionNameShared(project_id) == <<"project_", 0>>
CollectionName(project_id) == <<"project_", project_id>>
CollectionNames == {CollectionName(p) : p \in Projects}

\* the embedding backend, stubbed by a deterministic function of the text
EmbedDirections == 5
Embed(text) == Len(text) % EmbedDirections

\* cosine distance of two embeddings, in 0 .. 2 * ScoreOne
CosineDistance(a, b) ==
    (IF a >= b THEN a - b ELSE b - a) * ((2 * ScoreOne) \div (EmbedDirections - 1))

IdLess(a, b) == a[1] < b[1] \/ (a[1] = b[1] /\ a[2] < b[2])

\* self.chunker.chunk_document(...) for every document of the model,
\* tabulated once
KBChunks ==
    [c \in ContentIds, f \in FileIds, s \in BOOLEAN |->
        chunk_document(KBChunkerConfig, ContentText[c], f, FileName,
                       IF s THEN "specification" ELSE "other")]

\* the metadata dict index_document builds for a chunk
ChunkMetadata(chunk) ==
    [source_file_id |-> chunk.source_file_id,
     source_filename |-> chunk.source_filename,
     chunk_index |-> chunk.chunk_index,
     section_title |-> IF chunk.section_title = NoneText THEN << >>
                       ELSE chunk.section_title,
     page_number |-> IF chunk.page_number = NonePage THEN 0 ELSE chunk.page_number]

\* the records index_document hands to add_documents
ChunkRecords(chunks, file_id, project_id) ==
    {[id |-> <<file_id, chunks[i].chunk_index>>,
      document |-> chunks[i].text,
      metadata |-> ChunkMetadata(chunks[i]),
      added_via |-> project_id] : i \in 1..Len(chunks)}

\* collection.add: records whose id is already present are ignored
add_documents(coll, records) ==
    coll \cup {r \in records : \A old \in coll : old.id # r.id}

\* collection.get(where={"source_file_id": file_id}) then collection.delete
delete_by_file_id_last_only(coll, file_id) ==
    LET hits == {r \in coll : r.metadata.source_file_id = file_id}
    IN IF hits = {} THEN coll
       ELSE coll \ {CHOOSE r \in hits : \A o \in hits : o.id = r.id \/ IdLess(o.id, r.id)}
delete_by_file_id_nothing(coll, file_id) == coll
delete_by_file_id(coll, file_id) ==
    coll \ {r \in coll : r.metadata.source_file_id = file_id}

\* the records of a collection by increasing distance to the query
RECURSIVE NearestFirst(_, _)
NearestFirst(coll, query_embedding) ==
    IF coll = {} THEN << >>
    ELSE LET D(r) == CosineDistance(query_embedding, Embed(r.document))
             nearest == CHOOSE r \in coll : \A o \in coll :
                            o = r \/ D(r) < D(o) \/ (D(r) = D(o) /\ IdLess(r.id, o.id))
         IN <<nearest>> \o NearestFirst(coll \ {nearest}, query_embedding)

\* score = max(0.0, 1.0 - (dist / 2.0))
DistanceToScoreUnhalved(dist) == ScoreOne - dist
DistanceToScore(dist) ==
    IF ScoreOne - dist \div 2 > 0 THEN ScoreOne - dist \div 2 ELSE 0

\* ChromaVectorStore.search
VectorSearch(coll, query_embedding, n_results) ==
    LET ranked == NearestFirst(coll, query_embedding)
        top == SubSeq(ranked, 1, IF Len(ranked) < n_results THEN Len(ranked) ELSE n_results)
    IN [i \in 1..Len(top) |->
           [text |-> top[i].document,
            score |-> DistanceToScore(CosineDistance(query_embedding,
                                                     Embed(top[i].document))),
            metadata |-> top[i].metadata,
            added_via |-> top[i].added_via]]

\* KnowledgeBase.search
KBSearchResults(coll, query, n_results, min_score) ==
    LET results == VectorSearch(coll, Embed(query), n_results)
    IN IF min_score > 0 THEN SelectSeq(results, LAMBDA r : r.score >= min_score)
       ELSE results

NoCall ==
    [op |-> "none", project |-> 0, file_id |-> 0, content |-> "blank",
     is_specification |-> FALSE, outcome |-> "returned", ret |-> 0,
     prior |-> 0, repeat |-> FALSE, results |-> << >>]

KBInit ==
    /\ store = [n \in CollectionNames |-> {}]
    /\ kbLast = NoCall

FileRecords(coll, file_id) == {r \in coll : r.metadata.source_file_id = file_id}

\* KnowledgeBase.index_document; embed_ok tells whether embed_batch returns
IndexDocument(p, c, file_id, is_spec, embed_ok) ==
    LET name == CollectionName(p)
        content == ContentText[c]
        call == [NoCall EXCEPT !.op = "index_document", !.project = p,
                               !.file_id = file_id, !.content = c,
                               !.is_specification = is_spec,
                               !.prior = Cardinality(FileRecords(store[name], file_id)),
                               !.repeat = /\ kbLast.op = "index_document"
                                          /\ kbLast.outcome = "returned"
                                          /\ kbLast.project = p
                                          /\ kbLast.file_id = file_id
                                          /\ kbLast.content = c
                                          /\ kbLast.is_specification = is_spec]
    IN /\ UNCHANGED outside_kb
       /\ IF content = << >> \/ Strip(content) = << >>
          THEN /\ store' = store
               /\ kbLast' = call
          ELSE LET removed == delete_by_file_id(store[name], file_id)
                   chunks == KBChunks[c, file_id, is_spec]
               IN IF chunks = << >>
                  THEN /\ store' = [store EXCEPT ![name] = removed]
                       /\ kbLast' = call
                  ELSE IF ~embed_ok
                  THEN /\ store' = [store EXCEPT ![name] = removed]
                       /\ kbLast' = [call EXCEPT !.outcome = "raised", !.repeat = FALSE]
                  ELSE /\ store' = [store EXCEPT ![name] =
                                       add_documents(removed,
                                                     ChunkRecords(chunks, file_id, p))]
                       /\ kbLast' = [call EXCEPT !.ret = Len(chunks)]

\* KnowledgeBase.remove_document
RemoveDocument(p, file_id) ==
    LET name == CollectionName(p)
    IN /\ store' = [store EXCEPT ![name] = delete_by_file_id(store[name], file_id)]
       /\ kbLast' = [NoCall EXCEPT !.op = "remove_document", !.project = p,
                                   !.file_id = file_id,
                                   !.ret = Cardinality(FileRecords(store[name], file_id))]
       /\ UNCHANGED outside_kb

\* KnowledgeBase.clear: the collection is deleted and created again
KBClear(p) ==
    /\ store' = [store EXCEPT ![CollectionName(p)] = {}]
    /\ kbLast' = [NoCall EXCEPT !.op = "clear", !.project = p]
    /\ UNCHANGED outside_kb

\* KnowledgeBase.search
KBSearch(p, q, n_results, min_score) ==
    /\ store' = store
    /\ kbLast' = [NoCall EXCEPT !.op = "search", !.project = p, !.content = q,
                                !.ret = n_results,
                                !.results = KBSearchResults(store[CollectionName(p)],
                                                QueryText[q], n_results, min_score)]
    /\ UNCHANGED outside_kb

\* ChromaVectorStore.search with n_results = 1 when the index reports the
\* record r at the cosine distance dist: the distance is whatever the
\* geometry of the real embeddings makes it, any value of the grid
DistanceStep == 125
Distances ==
    {d \in 0..(2 * ScoreOne) : d % DistanceStep = 0 \/ d <= 2 \/ d >= 2 * ScoreOne - 2}

VectorSearchAtDistance(p, r, dist) ==
    /\ r \in store[CollectionName(p)]
    /\ store' = store
    /\ kbLast' = [NoCall EXCEPT !.op = "vector_search", !.project = p, !.ret = 1,
                                !.prior = dist,
                                !.results = <<[text |-> r.document,
                                               score |-> DistanceToScore(dist),
                                               metadata |-> r.metadata,
                                               added_via |-> r.added_via]>>]
    /\ UNCHANGED outside_kb

SearchSizes == {2}
MinScores == {0, 6000}

KBNext ==
    \/ \E p \in Projects, in \in IndexInputs, f \in FileIds, embed_ok \in BOOLEAN :
           IndexDocument(p, in[1], f, in[2], embed_ok)
    \/ \E p \in Projects, f \in FileIds : RemoveDocument(p, f)
    \/ \E p \in Projects : KBClear(p)
    \/ \E p \in Projects, q \in QueryIds, n \in SearchSizes, m \in MinScores :
           KBSearch(p, q, n, m)

\* ScoreSpec: one document is indexed and searched at every distance
ScoreNext ==
    \/ IndexDocument(1, "sections", 1, TRUE, TRUE)
    \/ \E r \in store[CollectionName(1)], dist \in Distances :
           VectorSearchAtDistance(1, r, dist)

----------------------------------------------------------------------------
(* KnowledgeBase.search_multi_query and KnowledgeBase.hybrid_search.       *)

\* the documents of the fused searches: paragraphs that give chunks of
\* three lengths, two sections of one file that share their first 200
\* characters, and paragraphs with the words the hybrid queries ask for
FusionText ==
    [mixed  |-> Rep("c", 10) \o <<"\n", "\n">> \o Rep("d", 11) \o <<"\n", "\n">>
                \o Rep("e", 12),
     twins  |-> <<"1", ".", "1", " ", "S">> \o Rep("t", 195) \o <<"a", "\n">>
                \o <<"1", ".", "1", " ", "S">> \o Rep("t", 195) \o <<"b">>,
     words  |-> <<"t", "a", "p", " ", "r", "o", "d", " ", "p", "i", "p", "e">> \o <<"\n", "\n">>
                \o <<"P", "i", "p", "e", " ", "j", "o", "i", "n", "t", " ", "x">> \o <<"\n", "\n">>
                \o <<"s", "t", "e", "e", "l", " ", "b", "e", "a", "m", " ", "x">> \o <<"\n", "\n">>
                \o <<"v", "a", "l", "v", "e", " ", "s", "e", "a", "t", " ", "x">>]

\* the sections of twins are kept whole by a knowledge base whose chunks
\* are longer
TwinsChunkerConfig ==
    [chunk_size |-> 150, chunk_overlap |-> 2, min_chunk_size |-> 10]

FusionChunks ==
    [c \in DOMAIN FusionText, f \in FileIds |->
        IF c = "twins"
        THEN chunk_document(TwinsChunkerConfig, FusionText[c], f, FileName,
                            "specification")
        ELSE chunk_document(KBChunkerConfig, FusionText[c], f, FileName, "other")]

\* index_document of a document of FusionText, whose chunks all embed
IndexFusionDocument(p, c, file_id) ==
    LET name == CollectionName(p)
        removed == delete_by_file_id(store[name], file_id)
        chunks == FusionChunks[c, file_id]
    IN /\ store' = [store EXCEPT ![name] =
                       add_documents(removed, ChunkRecords(chunks, file_id, p))]
       /\ kbLast' = [NoCall EXCEPT !.op = "index_document", !.project = p,
                                   !.file_id = file_id, !.ret = Len(chunks)]
       /\ UNCHANGED outside_kb

\* a Python float that is a score after boosts: scores of search_multi_query
\* are counted in units of 1 / (ScoreOne * BoostScale), in which five boosts
\* by 1.1 are exact
BoostScale == 100000
Boost(score) == (score \div 10) * 11

\* round(x, 4) of the quotient num / den, in units of 1 / ScoreOne when
\* num / den is; an exact half goes to the even neighbour
RoundDiv(num, den) ==
    LET q == num \div den
        r == num % den
    IN IF 2 * r < den THEN q
       ELSE IF 2 * r > den THEN q + 1
       ELSE IF q % 2 = 0 THEN q ELSE q + 1

\* f"{r.source_file_id}_{hash(r.text[:200])}": hash has no collision on
\* the texts of the model
DedupKey(r) == <<r.metadata.source_file_id, Slice(r.text, 0, 200)>>

\* text[:context_chars] + "..." when the text is longer than context_chars
ContextText(text, context_chars) ==
    IF Len(text) > context_chars
    THEN Slice(text, 0, context_chars) \o <<".", ".", ".">>
    ELSE text

\* for r in results: the dict all_results, in insertion order, each value
\* with its key
RECURSIVE MergeResultsKeepStored(_, _, _, _)
MergeResultsKeepStored(all_results, results, i, context_chars) ==
    IF i > Len(results) THEN all_results
    ELSE LET r == results[i]
             key == DedupKey(r)
             hits == {j \in 1..Len(all_results) : all_results[j].key = key}
         IN IF hits # {}
            THEN LET j == CHOOSE j \in hits : TRUE
                 IN MergeResultsKeepStored(
                        [all_results EXCEPT ![j].match_count = @ + 1],
                        results, i + 1, context_chars)
            ELSE MergeResultsKeepStored(
                     Append(all_results,
                            [key |-> key,
                             text |-> ContextText(r.text, context_chars),
                             source |-> r.metadata.source_filename,
                             source_file_id |-> r.metadata.source_file_id,
                             section |-> r.metadata.section_title,
                             score |-> r.score * BoostScale,
                             match_count |-> 1]),
                     results, i + 1, context_chars)
RECURSIVE MergeResults(_, _, _, _)
MergeResults(all_results, results, i, context_chars) ==
    IF i > Len(results) THEN all_results
    ELSE LET r == results[i]
             key == DedupKey(r)
             hits == {j \in 1..Len(all_results) : all_results[j].key = key}
         IN IF hits # {}
            THEN LET j == CHOOSE j \in hits : TRUE
                     existing == all_results[j]
                     new == r.score * BoostScale
                 IN MergeResults(
                        [all_results EXCEPT
                            ![j].score = Boost(IF existing.score >= new
                                               THEN existing.score ELSE new),
                            ![j].match_count = @ + 1],
                        results, i + 1, context_chars)
            ELSE MergeResults(
                     Append(all_results,
                            [key |-> key,
                             text |-> ContextText(r.text, context_chars),
                             source |-> r.metadata.source_filename,
                             source_file_id |-> r.metadata.source_file_id,
                             section |-> r.metadata.section_title,
                             score |-> r.score * BoostScale,
                             match_count |-> 1]),
                     results, i + 1, context_chars)

\* not query or len(query.strip()) < 5
SkippedQuery(query) == query = << >> \/ Len(Strip(query)) < 5

\* for query in queries
RECURSIVE FuseQueries(_, _, _, _, _, _, _)
FuseQueries(coll, queries, q, n_results_per_query, context_chars, min_score, all_results) ==
    IF q > Len(queries) THEN all_results
    ELSE IF SkippedQuery(queries[q])
    THEN FuseQueries(coll, queries, q + 1, n_results_per_query, context_chars,
                     min_score, all_results)
    ELSE FuseQueries(coll, queries, q + 1, n_results_per_query, context_chars,
                     min_score,
                     MergeResults(all_results,
                                  KBSearchResults(coll, queries[q],
                                                  n_results_per_query, min_score),
                                  1, context_chars))

\* sorted(items, key=lambda x: x["score"], reverse=True): items of equal
\* score keep their order
RECURSIVE SortedByScore(_)
SortedByScore(items) ==
    IF items = << >> THEN << >>
    ELSE LET best == CHOOSE i \in 1..Len(items) :
                        \A j \in 1..Len(items) :
                            \/ items[j].score < items[i].score
                            \/ (items[j].score = items[i].score /\ j >= i)
         IN <<items[best]>>
            \o SortedByScore([k \in 1..(Len(items) - 1) |->
                                 IF k < best THEN items[k] ELSE items[k + 1]])

\* r["score"] = round(min(r["score"], 1.0), 4); r.pop("match_count", None)
CleanUpUnclamped(r) ==
    [text |-> r.text, source |-> r.source, source_file_id |-> r.source_file_id,
     section |-> r.section, score |-> RoundDiv(r.score, BoostScale)]
CleanUp(r) ==
    [text |-> r.text, source |-> r.source, source_file_id |-> r.source_file_id,
     section |-> r.section,
     score |-> RoundDiv(IF r.score < ScoreOne * BoostScale THEN r.score
                        ELSE ScoreOne * BoostScale, BoostScale)]

\* KnowledgeBase.search_multi_query.  The call is recorded with the queries
\* that reached search, the dict all_results and sorted_results as they were
\* before the scores were cleaned up.
SearchMultiQuery(p, queries, n_results_per_query, max_total_results, context_chars, min_score) ==
    \E all_results \in {IF queries = << >> THEN << >>
                         ELSE FuseQueries(store[CollectionName(p)], queries, 1,
                                          n_results_per_query, context_chars,
                                          min_score, << >>)} :
      \E sorted_results \in {Slice(SortedByScore(all_results), 0,
                                    max_total_results)} :
        /\ store' = store
        /\ kbLast' = [op |-> "search_multi_query", project |-> p,
                      queries |-> queries,
                      n_results_per_query |-> n_results_per_query,
                      max_total_results |-> max_total_results,
                      context_chars |-> context_chars,
                      min_score |-> min_score,
                      searched |-> SelectSeq(queries, LAMBDA q : ~SkippedQuery(q)),
                      all_results |-> all_results,
                      sorted_results |-> sorted_results,
                      results |-> [i \in 1..Len(sorted_results) |->
                                      CleanUp(sorted_results[i])]]
        /\ UNCHANGED outside_kb

\* the query lists of the model: the queries differ in length, and so in
\* embedding; one is too short, one is long enough only with its blanks
QueryOfLength(n) == Rep("q", n)
QueryLists ==
    {<< >>,
     <<QueryOfLength(5)>>,
     <<QueryOfLength(6), QueryOfLength(6)>>,
     <<QueryOfLength(6), <<"a", "b", "c", "d">>, QueryOfLength(5)>>,
     <<QueryOfLength(5), QueryOfLength(6), QueryOfLength(7)>>,
     <<<<" ", " ", "a", "b", " ", " ">>, << >>, QueryOfLength(7)>>,
     <<QueryOfLength(11), QueryOfLength(6), QueryOfLength(6)>>,
     <<QueryOfLength(8), QueryOfLength(8), QueryOfLength(7)>>,
     <<QueryOfLength(8), QueryOfLength(7)>>}

\* FusionSpec: two files of project 1 are indexed and searched with several
\* queries at once
FusionArguments ==
    {[n_results_per_query |-> 2, max_total_results |-> 10, context_chars |-> 1000,
      min_score |-> 3000],
     [n_results_per_query |-> 2, max_total_results |-> 10, context_chars |-> 5,
      min_score |-> 0],
     [n_results_per_query |-> 1, max_total_results |-> 10, context_chars |-> 1000,
      min_score |-> 0],
     [n_results_per_query |-> 2, max_total_results |-> 1, context_chars |-> 1000,
      min_score |-> 0]}
FusionNext ==
    \/ IndexFusionDocument(1, "mixed", 1)
    \/ IndexFusionDocument(1, "twins", 2)
    \/ \E queries \in QueryLists, a \in FusionArguments :
           SearchMultiQuery(1, queries, a.n_results_per_query, a.max_total_results,
                            a.context_chars, a.min_score)

\* str.lower()
Alphabet ==
    <<"a", "b", "c", "d", "e", "f", "g", "h", "i", "j", "k", "l", "m", "n",
    "o", "p", "q", "r", "s", "t", "u", "v", "w", "x", "y", "z">>
Capitals ==
    <<"A", "B", "C", "D", "E", "F", "G", "H", "I", "J", "K", "L", "M", "N",
    "O", "P", "Q", "R", "S", "T", "U", "V", "W", "X", "Y", "Z">>
Letters == SeqRange(Alphabet) \cup Upper
LowerChar(c) ==
    IF c \in Upper THEN Alphabet[CHOOSE i \in 1..26 : Capitals[i] = c] ELSE c
LowerText(text) == [i \in 1..Len(text) |-> LowerChar(text[i])]

\* re.findall(r'\b[a-zA-Z]+\b', text): the maximal runs of letters that no
\* digit or underscore touches
WordChars == Letters \cup Digits \cup {"_"}
RECURSIVE FindWords(_, _)
FindWords(text, pos) ==
    IF pos >= Len(text) THEN << >>
    ELSE IF text[pos + 1] \in Letters /\ CharAt(text, pos - 1) \notin WordChars
    THEN IF CharAt(text, RunEnd(text, pos, Letters)) \notin WordChars
         THEN <<Slice(text, pos, RunEnd(text, pos, Letters))>>
              \o FindWords(text, RunEnd(text, pos, Letters))
         ELSE FindWords(text, RunEnd(text, pos, Letters))
    ELSE FindWords(text, pos + 1)

stopwords ==
    {<<"t", "h", "e">>,
     <<"a">>,
     <<"a", "n">>,
     <<"i", "s">>,
     <<"a", "r", "e">>,
     <<"w", "a", "s">>,
     <<"w", "e", "r", "e">>,
     <<"b", "e">>,
     <<"b", "e", "e", "n">>,
     <<"b", "e", "i", "n", "g">>,
     <<"h", "a", "v", "e">>,
     <<"h", "a", "s">>,
     <<"h", "a", "d">>,
     <<"d", "o">>,
     <<"d", "o", "e", "s">>,
     <<"d", "i", "d">>,
     <<"w", "i", "l", "l">>,
     <<"w", "o", "u", "l", "d">>,
     <<"c", "o", "u", "l", "d">>,
     <<"s", "h", "o", "u", "l", "d">>,
     <<"m", "a", "y">>,
     <<"m", "i", "g", "h", "t">>,
     <<"m", "u", "s", "t">>,
     <<"c", "a", "n">>,
     <<"f", "o", "r">>,
     <<"a", "n", "d">>,
     <<"n", "o", "r">>,
     <<"b", "u", "t">>,
     <<"o", "r">>,
     <<"y", "e", "t">>,
     <<"s", "o">>,
     <<"o", "f">>,
     <<"i", "n">>,
     <<"o", "n">>,
     <<"a", "t">>,
     <<"t", "o">>,
     <<"f", "r", "o", "m">>,
     <<"b", "y">>,
     <<"w", "i", "t", "h">>,
     <<"w", "h", "a", "t">>,
     <<"w", "h", "i", "c", "h">>,
     <<"w", "h", "o">>,
     <<"w", "h", "o", "m">>,
     <<"t", "h", "i", "s">>,
     <<"t", "h", "a", "t">>,
     <<"t", "h", "e", "s", "e">>,
     <<"t", "h", "o", "s", "e">>,
     <<"i", "t">>}

\* keywords = [w for w in words if w not in stopwords and len(w) > 2]
DerivedKeywords(query) ==
    SelectSeq(FindWords(LowerText(query), 0),
              LAMBDA w : w \notin stopwords /\ Len(w) > 2)

\* kw in text
IsSubstring(kw, text) ==
    \E i \in 0..(Len(text) - Len(kw)) : Slice(text, i, i + Len(kw)) = kw

\* keyword_matches of a candidate
KeywordMatches(keywords, text) ==
    Cardinality({i \in 1..Len(keywords) :
                    IsSubstring(LowerText(keywords[i]), LowerText(text))})

\* max(len(keywords), 1).  The combined scores of one call are counted in
\* units of 1 / (ScoreOne * ScoreOne * KeywordDivisor(keywords)), in which
\* the products with the weights and the quotient by the number of keywords
\* are exact.
KeywordDivisor(keywords) == IF Len(keywords) > 1 THEN Len(keywords) ELSE 1

\* keyword_score, in units of 1 / KeywordDivisor(keywords)
KeywordScore(keywords, text) ==
    IF keywords # << >> THEN KeywordMatches(keywords, text) ELSE 0

\* combined_score = r.score * semantic_weight + keyword_score * keyword_weight
CombinedScoreSemanticOnly(r, keywords, semantic_weight, keyword_weight) ==
    r.score * semantic_weight * KeywordDivisor(keywords)
CombinedScoreKeywordOnly(r, keywords, semantic_weight, keyword_weight) ==
    KeywordScore(keywords, r.text) * ScoreOne * keyword_weight
CombinedScore(r, keywords, semantic_weight, keyword_weight) ==
    r.score * semantic_weight * KeywordDivisor(keywords)
      + KeywordScore(keywords, r.text) * ScoreOne * keyword_weight

\* for r in semantic_results: the entries of scored_results, each with the
\* place of its candidate and its combined score before rounding
ScoredResults(semantic_results, keywords, semantic_weight, keyword_weight, min_score) ==
    LET unit == ScoreOne * KeywordDivisor(keywords)
        combined(r) == CombinedScore(r, keywords, semantic_weight, keyword_weight)
        kept == SelectSeq([i \in 1..Len(semantic_results) |-> i],
                          LAMBDA i : combined(semantic_results[i]) >= min_score * unit)
    IN [k \in 1..Len(kept) |->
           LET r == semantic_results[kept[k]]
           IN [candidate |-> kept[k],
               combined |-> combined(r),
               text |-> r.text,
               source |-> r.metadata.source_filename,
               source_file_id |-> r.metadata.source_file_id,
               section |-> r.metadata.section_title,
               score |-> RoundDiv(combined(r), unit),
               semantic_score |-> r.score,
               keyword_score |-> RoundDiv(KeywordScore(keywords, r.text) * ScoreOne,
                                          KeywordDivisor(keywords))]]

\* the records of a collection by increasing distance, when the index
\* reports the record of id i at the distance dist[i]
RECURSIVE NearestFirstAt(_, _)
NearestFirstAt(coll, dist) ==
    IF coll = {} THEN << >>
    ELSE LET nearest == CHOOSE r \in coll : \A o \in coll :
                            \/ o = r
                            \/ dist[r.id] < dist[o.id]
                            \/ (dist[r.id] = dist[o.id] /\ IdLess(r.id, o.id))
         IN <<nearest>> \o NearestFirstAt(coll \ {nearest}, dist)

\* ChromaVectorStore.search under these distances
VectorSearchAt(coll, dist, n_results) ==
    LET ranked == NearestFirstAt(coll, dist)
        top == Slice(ranked, 0, n_results)
    IN [i \in 1..Len(top) |->
           [text |-> top[i].document,
            score |-> DistanceToScore(dist[top[i].id]),
            metadata |-> top[i].metadata,
            added_via |-> top[i].added_via]]

\* the keywords argument: None or a list
NoKeywords == [given |-> FALSE, list |-> << >>]
Keywords(list) == [given |-> TRUE, list |-> list]

\* KnowledgeBase.hybrid_search, the index reporting its records at the
\* distances dist.  search is called with min_score = 0.0 and filters
\* nothing.  The call is recorded with the distances, its candidates, its
\* keywords and scored_results as sorted, before the cut to n_results.
HybridSearch(p, query, keywords, n_results, semantic_weight, keyword_weight, min_score, dist) ==
    \E semantic_results \in {VectorSearchAt(store[CollectionName(p)], dist,
                                            n_results * 3)},
       kws \in {IF keywords.given THEN keywords.list ELSE DerivedKeywords(query)} :
      \E scored_results \in {SortedByScore(
                                 ScoredResults(semantic_results, kws,
                                               semantic_weight, keyword_weight,
                                               min_score))} :
        /\ store' = store
        /\ kbLast' = [op |-> "hybrid_search", project |-> p, query |-> query,
                      derived |-> ~keywords.given,
                      keywords |-> kws,
                      n_results |-> n_results,
                      semantic_weight |-> semantic_weight,
                      keyword_weight |-> keyword_weight,
                      min_score |-> min_score,
                      distances |-> dist,
                      semantic_results |-> semantic_results,
                      scored_results |-> scored_results,
                      results |-> Slice(scored_results, 0, n_results)]
        /\ UNCHANGED outside_kb

\* the hybrid calls: a query with three keywords, a query of stopwords
\* only, and a query with a keyword list of its own
HybridQueries ==
    {<<"t", "h", "e", " ", "T", "a", "p", ",", " ", "r", "o", "d", " ", "a", "t", " ", "p", "i", "p", "e">>,
     <<"w", "h", "a", "t", " ", "i", "s", " ", "i", "t">>}
HybridCalls ==
    {[query |-> q, keywords |-> NoKeywords] : q \in HybridQueries}
      \cup {[query |-> <<"p", "i", "p", "e", "s">>,
             keywords |-> Keywords(<<<<"P", "I", "P", "E">>>>)]}

\* the distances of the records to the query: scores 0.6428, 0.5 and 0.2
\* for the first three chunks, 1.0 for the last
HybridDistances ==
    {dist \in [{<<1, i>> : i \in 0..3} -> {0, 7144, 10000, 16000}] :
        /\ \A i \in 0..2 : dist[<<1, i>>] # 0
        /\ dist[<<1, 3>>] = 0}

\* HybridSpec: one document of four chunks is indexed and searched
HybridNext ==
    \/ IndexFusionDocument(1, "words", 1)
    \/ \E call \in HybridCalls, n \in {1, 2}, dist \in HybridDistances :
           HybridSearch(1, call.query, call.keywords, n, 7000, 3000, 2000, dist)

----------------------------------------------------------------------------
(* Claims about the knowledge base.                                        *)

IsIndexCall(call) == call.op = "index_document" /\ call.outcome = "returned"

SameIndexArguments(a, b) ==
    /\ a.project = b.project
    /\ a.file_id = b.file_id
    /\ a.content = b.content
    /\ a.is_specification = b.is_specification

\* C1: when index_document is called twice in a row with the same content,
\* file id, filename and is_specification and both calls return, the second
\* call returns the chunk count of the first and leaves every collection
\* exactly as the first call left it.
C1_IdempotentReindex ==
    [][(/\ IsIndexCall(kbLast)
        /\ IsIndexCall(kbLast')
        /\ SameIndexArguments(kbLast, kbLast'))
       => (/\ kbLast'.ret = kbLast.ret
           /\ store' = store
           /\ Cardinality(store'[CollectionName(kbLast.project)])
                = Cardinality(store[CollectionName(kbLast.project)]))]_kbvars

\* a repeated index_document of a document that has chunks, over records of
\* an earlier, different indexing of the same file
C1_Witness ==
    /\ IsIndexCall(kbLast)
    /\ kbLast.repeat
    /\ kbLast.ret > 1
    /\ \E f \in FileIds : f # kbLast.file_id
           /\ FileRecords(store[CollectionName(kbLast.project)], f) # {}

\* C2: after index_document returns n > 0 the records of the collection
\* whose source_file_id is file_id are exactly the n chunks of the new
\* content: ids file_id_0 .. file_id_(n-1), chunk_index 0 .. n-1, the text
\* and metadata of the new chunks, and nothing of an earlier indexing.
C2_ExactlyNewChunks ==
    (IsIndexCall(kbLast) /\ kbLast.ret > 0) =>
        LET n == kbLast.ret
            f == kbLast.file_id
            recs == FileRecords(store[CollectionName(kbLast.project)], f)
            chunks == KBChunks[kbLast.content, f, kbLast.is_specification]
        IN /\ Len(chunks) = n
           /\ Cardinality(recs) = n
           /\ {r.id : r \in recs} = {<<f, i>> : i \in 0..(n - 1)}
           /\ \A r \in recs :
                 /\ r.metadata.chunk_index = r.id[2]
                 /\ r.document = chunks[r.id[2] + 1].text
                 /\ r.metadata = ChunkMetadata(chunks[r.id[2] + 1])

\* a re-index whose new content has fewer chunks than the file had before
C2_Witness ==
    /\ IsIndexCall(kbLast)
    /\ kbLast.ret > 0
    /\ kbLast.prior > kbLast.ret

\* C3: an index_document, remove_document or clear on the knowledge base of
\* project P leaves the records and the count of each other project Q
\* unchanged (a search on Q reads nothing but the records of Q, so its
\* results are unchanged too), and a search on Q only returns records that
\* were added through Q.
C3_OtherProjectsUntouched ==
    [][\A q \in Projects :
          (kbLast'.op \in {"index_document", "remove_document", "clear"}
           /\ kbLast'.project # q)
          => LET before == store[CollectionName(q)]
                 after == store'[CollectionName(q)]
             IN /\ after = before
                /\ Cardinality(after) = Cardinality(before)]_kbvars

C3_SearchOnlyOwnRecords ==
    kbLast.op = "search" =>
        \A i \in 1..Len(kbLast.results) : kbLast.results[i].added_via = kbLast.project

C3_ProjectIsolation ==
    C3_OtherProjectsUntouched /\ []C3_SearchOnlyOwnRecords

\* project 2 searches its own records after project 1 has indexed, removed
\* and cleared next to it
C3_Witness ==
    /\ kbLast.op = "search"
    /\ kbLast.project = 2
    /\ Len(kbLast.results) > 1
    /\ store[CollectionName(1)] # {}

----------------------------------------------------------------------------
(* ContentCache.                                                           *)
(*                                                                         *)
(* _cache is the OrderedDict as a sequence of [key, entry] pairs, oldest   *)
(* first; disk is the durable overflow directory, one entry per key that   *)
(* has a <key>.json file.  The key sha256(path)[:32] is taken to be free   *)
(* of collisions, so a key is identified with its path.  files gives for   *)
(* every path whether the file exists and the st_mtime of its last         *)
(* version (Stat reads it); the text of a file is a function of            *)
(* its path and mtime, so the mtime also names the version of the file.    *)
(* The hit, miss and eviction statistics are left out: no code reads them  *)
(* to take a decision.  Disk operations on the cache directory succeed.    *)
(*                                                                         *)
(* A with self._lock block is one atomic step.  thr[t] is the position and *)
(* the local variables of client thread t; thr[t].ret is what its last     *)
(* finished call returned.  useOrder, evicted and thr[t].start_version are *)
(* history variables.                                                      *)

Paths == {"a.txt", "b.txt", "c.bin"}
Threads == {"t1", "t2"}
Missing == -1

\* ContentCache(max_memory_items, max_memory_bytes, ttl_seconds)
max_memory_items == 2
max_memory_bytes == 54
ttl_seconds == 1

MaxTime == 2
MaxAccessCount == 2
\* a stale memory entry is deleted only while the byte counter is at most
\* this far above the bytes held (the counter is not decremented there)
MaxDrift == 0

\* the parser registry has no parser for the extension of c.bin
HasParser(path) == path # "c.bin"

\* len(ch.encode("utf-8")) for the characters and fixed phrases of the model
Utf8Bytes(ch) ==
    CASE ch = "U+00E9" -> 2
      [] ch = "U+1D11E" -> 4
      [] ch = "(parsing failed: " -> 17
      [] ch = "No parser available for file: c.bin" -> 35
      [] ch = "Failed to read file: " -> 21
      [] OTHER -> 1

\* len(content.encode("utf-8"))
RECURSIVE Utf8Len(_)
Utf8Len(content) ==
    IF content = << >> THEN 0 ELSE Utf8Bytes(Head(content)) + Utf8Len(Tail(content))

\* the text the parser extracts from version v of a file
FileText(path, v) ==
    IF path = "a.txt"
    THEN (CASE v = 0 -> <<"a">>
            [] v = 1 -> <<"U+00E9">>
            [] OTHER -> Rep("U+1D11E", 14))
    ELSE IF v = 0 THEN <<"b">> ELSE <<"b", "b">>

\* registry.parse(file_path) followed by the success test of get_or_parse:
\* the content and metadata that get_or_parse goes on to cache
ParsedContent(path, mtime) ==
    IF ~HasParser(path)
    THEN [content |-> <<"(parsing failed: ", "No parser available for file: c.bin", ")">>,
          metadata |-> "error", version |-> mtime]
    ELSE IF mtime = Missing
    THEN [content |-> <<"(parsing failed: ", "Failed to read file: ", ")">>,
          metadata |-> "error", version |-> mtime]
    ELSE [content |-> FileText(path, mtime), metadata |-> "parsed", version |-> mtime]

\* CacheEntry; version is a history field: the file version the content
\* was parsed from
CacheEntry(parsed, file_modified, cached_at, access_count) ==
    [content |-> parsed.content, metadata |-> parsed.metadata,
     version |-> parsed.version, file_modified |-> file_modified,
     cached_at |-> cached_at, access_count |-> access_count]

NoEntry == CacheEntry([content |-> << >>, metadata |-> "none", version |-> Missing],
                      Missing, Missing, 0)

Keys(cache) == {cache[i].key : i \in 1..Len(cache)}
EntryOf(cache, key) == (CHOOSE i \in 1..Len(cache) : cache[i].key = key)
Without(cache, key) == SelectSeq(cache, LAMBDA kv : kv.key # key)
Lookup(cache, key) == cache[EntryOf(cache, key)].entry

\* the sum the counter _cache_size_bytes is meant to hold
RECURSIVE MemoryBytes(_)
MemoryBytes(cache) ==
    IF cache = << >> THEN 0
    ELSE Utf8Len(Head(cache).entry.content) + MemoryBytes(Tail(cache))

\* _save_to_disk
SaveToDisk(d, key, entry) ==
    [k \in DOMAIN d \cup {key} |-> IF k = key THEN entry ELSE d[k]]

\* cache_file.unlink()
Unlink(d, key) == [k \in DOMAIN d \ {key} |-> d[k]]

\* the eviction loop of _add_to_memory on the state
\* st = [cache, bytes, disk, evicted]
RECURSIVE EvictLoopNewestFirst(_, _)
EvictLoopNewestFirst(st, content_size) ==
    IF (Len(st.cache) >= max_memory_items
        \/ st.bytes + content_size > max_memory_bytes) /\ st.cache # << >>
    THEN LET oldest == st.cache[Len(st.cache)]
         IN EvictLoopNewestFirst(
                [cache |-> SubSeq(st.cache, 1, Len(st.cache) - 1),
                 bytes |-> st.bytes - Utf8Len(oldest.entry.content),
                 disk |-> IF oldest.entry.access_count > 1
                          THEN SaveToDisk(st.disk, oldest.key, oldest.entry)
                          ELSE st.disk,
                 evicted |-> Append(st.evicted, oldest)],
                content_size)
    ELSE st
RECURSIVE EvictLoopSaveAlways(_, _)
EvictLoopSaveAlways(st, content_size) ==
    IF (Len(st.cache) >= max_memory_items
        \/ st.bytes + content_size > max_memory_bytes) /\ st.cache # << >>
    THEN LET oldest == Head(st.cache)
         IN EvictLoopSaveAlways(
                [cache |-> Tail(st.cache),
                 bytes |-> st.bytes - Utf8Len(oldest.entry.content),
                 disk |-> SaveToDisk(st.disk, oldest.key, oldest.entry),
                 evicted |-> Append(st.evicted, oldest)],
                content_size)
    ELSE st
RECURSIVE EvictLoop(_, _)
EvictLoop(st, content_size) ==
    IF (Len(st.cache) >= max_memory_items
        \/ st.bytes + content_size > max_memory_bytes) /\ st.cache # << >>
    THEN LET oldest == Head(st.cache)
         IN EvictLoop(
                [cache |-> Tail(st.cache),
                 bytes |-> st.bytes - Utf8Len(oldest.entry.content),
                 disk |-> IF oldest.entry.access_count > 1
                          THEN SaveToDisk(st.disk, oldest.key, oldest.entry)
                          ELSE st.disk,
                 evicted |-> Append(st.evicted, oldest)],
                content_size)
    ELSE st

\* one thing a method does, with whether it holds self._lock meanwhile
Did(by, event, locked) == [by |-> by, event |-> event, locked |-> locked]

\* what _add_to_memory does when its eviction loop evicts these entries: get
\* and put call it inside "with self._lock"
AddToMemoryLog(evicted_entries) ==
    {Did("_add_to_memory", "insert", TRUE)}
    \cup {Did("_add_to_memory", "popitem", TRUE) : e \in SeqRange(evicted_entries)}
    \cup {Did("_add_to_memory", "_save_to_disk", TRUE) :
              e \in {x \in SeqRange(evicted_entries) : x.entry.access_count > 1}}

\* _add_to_memory(key, entry) on the cache, the byte counter and the disk
_add_to_memory(cache, bytes, d, key, entry) ==
    LET content_size == Utf8Len(entry.content)
        popped == [cache |-> Without(cache, key),
                   bytes |-> IF key \in Keys(cache)
                             THEN bytes - Utf8Len(Lookup(cache, key).content)
                             ELSE bytes,
                   disk |-> d,
                   evicted |-> << >>]
        st == EvictLoop(popped, content_size)
    IN [st EXCEPT !.cache = Append(st.cache, [key |-> key, entry |-> entry]),
                  !.bytes = st.bytes + content_size]

NoReturn == [op |-> "none", path |-> "a.txt", found |-> FALSE, entry |-> NoEntry,
             was_cached |-> FALSE]

IdleThread ==
    [pc |-> "idle", op |-> "none", path |-> "a.txt", force_refresh |-> FALSE,
     entry |-> NoEntry,
     parsed |-> [content |-> << >>, metadata |-> "none", version |-> Missing],
     start_version |-> Missing, ret |-> NoReturn]

CacheInit ==
    /\ files = [p \in Paths |-> [exists |-> TRUE, mtime |-> 0]]
    /\ now = 0
    /\ _cache = << >>
    /\ _cache_size_bytes = 0
    /\ disk = << >>
    /\ thr = [t \in Threads |-> IdleThread]
    /\ useOrder = << >>
    /\ evicted = << >>
    /\ lockLog = {}

\* os.stat(path).st_mtime, Missing standing for the OSError of a missing file
Stat(path) == IF files[path].exists THEN files[path].mtime ELSE Missing

\* the order of latest use after key has been used, kept for the keys that
\* are in memory
Touched(order, key, cache) ==
    SelectSeq(SelectSeq(order, LAMBDA k : k # key) \o <<key>>,
              LAMBDA k : k \in Keys(cache))
Untouched(order, cache) == SelectSeq(order, LAMBDA k : k \in Keys(cache))

\* the call of thread t returns
Returned(rec, found, entry, was_cached) ==
    [rec EXCEPT !.pc = "idle", !.entry = NoEntry, !.parsed = IdleThread.parsed,
                !.ret = [op |-> rec.op, path |-> rec.path, found |-> found,
                         entry |-> IF found THEN entry ELSE NoEntry,
                         was_cached |-> was_cached]]

\* get has produced an entry: get returns it, get_or_parse returns its
\* content with was_cached = True
GetHit(rec, entry) == Returned(rec, TRUE, entry, rec.op = "get_or_parse")

\* get has produced None: get returns None, get_or_parse goes on to parse
GetMiss(rec) ==
    IF rec.op = "get" THEN Returned(rec, FALSE, NoEntry, FALSE)
    ELSE [rec EXCEPT !.pc = "parse", !.entry = NoEntry]

\* the entry of the memory cache may be returned: the file exists, its mtime
\* is not greater than the recorded one and the entry is within its TTL
MemoryEntryValid(entry, path) ==
    /\ Stat(path) # Missing
    /\ ~(Stat(path) > entry.file_modified)
    /\ ~(now - entry.cached_at > ttl_seconds)

\* get, lines 114-149: the force_refresh test and the block under the lock.
\* A thread starts get or get_or_parse with this step.
GetMemory(t, op, path, force_refresh) ==
    LET rec == [thr[t] EXCEPT !.op = op, !.path = path,
                              !.force_refresh = force_refresh,
                              !.start_version = Stat(path), !.ret = NoReturn]
    IN /\ thr[t].pc = "idle"
       /\ UNCHANGED <<files, now, disk>>
       /\ evicted' = << >>
       /\ UNCHANGED outside_cache
       /\ lockLog' = IF force_refresh \/ path \notin Keys(_cache) THEN {}
                     ELSE {Did("get", "stat", TRUE),
                           Did("get", IF MemoryEntryValid(Lookup(_cache, path), path)
                                      THEN "move_to_end" ELSE "del", TRUE)}
       /\ IF force_refresh
          THEN /\ thr' = [thr EXCEPT ![t] = GetMiss(rec)]
               /\ UNCHANGED <<_cache, _cache_size_bytes, useOrder>>
          ELSE IF path \in Keys(_cache)
          THEN LET entry == Lookup(_cache, path)
               IN IF ~MemoryEntryValid(entry, path)
                  THEN /\ _cache_size_bytes - MemoryBytes(_cache) <= MaxDrift
                       /\ _cache' = Without(_cache, path)
                       /\ thr' = [thr EXCEPT ![t] = GetMiss(rec)]
                       /\ useOrder' = Untouched(useOrder, _cache')
                       /\ UNCHANGED _cache_size_bytes
                  ELSE LET hit == [entry EXCEPT !.access_count = @ + 1]
                       IN /\ entry.access_count < MaxAccessCount
                          /\ _cache' = Append(Without(_cache, path),
                                              [key |-> path, entry |-> hit])
                          /\ thr' = [thr EXCEPT ![t] = GetHit(rec, hit)]
                          /\ useOrder' = Touched(useOrder, path, _cache')
                          /\ UNCHANGED _cache_size_bytes
          ELSE /\ thr' = [thr EXCEPT ![t] = [rec EXCEPT !.pc = "get_disk"]]
               /\ UNCHANGED <<_cache, _cache_size_bytes, useOrder>>

\* the durable entry may be returned
DiskEntryValid(data, path) ==
    /\ ~(Stat(path) > data.file_modified)
    /\ ~(now - data.cached_at > ttl_seconds)

\* _get_from_disk, called by get outside the lock
GetFromDisk(t) ==
    LET rec == thr[t]
        path == rec.path
    IN /\ rec.pc = "get_disk"
       /\ UNCHANGED <<files, now, _cache, _cache_size_bytes, useOrder>>
       /\ evicted' = << >>
       /\ UNCHANGED outside_cache
       /\ lockLog' = IF path \notin DOMAIN disk THEN {Did("_get_from_disk", "exists", FALSE)}
                     ELSE {Did("_get_from_disk", "exists", FALSE),
                           Did("_get_from_disk", "open", FALSE),
                           Did("_get_from_disk", "stat", FALSE)}
                          \cup (IF Stat(path) # Missing /\ ~DiskEntryValid(disk[path], path)
                                THEN {Did("_get_from_disk", "unlink", FALSE)} ELSE {})
       /\ IF path \notin DOMAIN disk \/ Stat(path) = Missing
          THEN /\ thr' = [thr EXCEPT ![t] = GetMiss(rec)]
               /\ UNCHANGED disk
          ELSE IF ~DiskEntryValid(disk[path], path)
          THEN /\ disk' = Unlink(disk, path)
               /\ thr' = [thr EXCEPT ![t] = GetMiss(rec)]
          ELSE /\ thr' = [thr EXCEPT ![t] =
                             [rec EXCEPT !.pc = "get_promote", !.entry = disk[path]]]
               /\ UNCHANGED disk

\* get, lines 153-158: the disk entry is promoted to memory under the lock
\* and returned
GetPromote(t) ==
    LET rec == thr[t]
        st == _add_to_memory(_cache, _cache_size_bytes, disk, rec.path, rec.entry)
    IN /\ rec.pc = "get_promote"
       /\ UNCHANGED <<files, now>>
       /\ _cache' = st.cache
       /\ _cache_size_bytes' = st.bytes
       /\ disk' = st.disk
       /\ evicted' = st.evicted
       /\ UNCHANGED outside_cache
       /\ lockLog' = AddToMemoryLog(st.evicted)
       /\ useOrder' = Touched(useOrder, rec.path, _cache')
       /\ thr' = [thr EXCEPT ![t] = GetHit(rec, rec.entry)]

\* get_or_parse, lines 224-232: the parser reads the file
ParseDropsFailure(t) ==
    LET rec == thr[t]
        parsed == ParsedContent(rec.path, Stat(rec.path))
    IN /\ rec.pc = "parse"
       /\ UNCHANGED <<files, now, _cache, _cache_size_bytes, disk>>
       /\ evicted' = << >>
       /\ UNCHANGED outside_cache
       /\ lockLog' = {Did("get_or_parse", "parse", FALSE)}
       /\ useOrder' = useOrder
       /\ thr' = [thr EXCEPT ![t] =
                     IF parsed.metadata = "error"
                     THEN Returned(rec, TRUE, CacheEntry(parsed, Stat(rec.path), now, 0),
                                   FALSE)
                     ELSE [rec EXCEPT !.pc = "put_stat", !.parsed = parsed]]
Parse(t) ==
    LET rec == thr[t]
    IN /\ rec.pc = "parse"
       /\ UNCHANGED <<files, now, _cache, _cache_size_bytes, disk>>
       /\ evicted' = << >>
       /\ UNCHANGED outside_cache
       /\ lockLog' = {Did("get_or_parse", "parse", FALSE)}
       /\ useOrder' = useOrder
       /\ thr' = [thr EXCEPT ![t] =
                     [rec EXCEPT !.pc = "put_stat",
                                 !.parsed = ParsedContent(rec.path, Stat(rec.path))]]

\* put, lines 180-193: the mtime is read and the entry is built
PutStat(t) ==
    LET rec == thr[t]
        mtime == IF Stat(rec.path) = Missing THEN now ELSE Stat(rec.path)
    IN /\ rec.pc = "put_stat"
       /\ UNCHANGED <<files, now, _cache, _cache_size_bytes, disk>>
       /\ evicted' = << >>
       /\ UNCHANGED outside_cache
       /\ lockLog' = {Did("put", "stat", FALSE)}
       /\ useOrder' = useOrder
       /\ thr' = [thr EXCEPT ![t] =
                     [rec EXCEPT !.pc = "put_memory",
                                 !.entry = CacheEntry(rec.parsed, mtime, now, 0)]]

\* put, lines 195-196: the entry is added to memory under the lock
PutMemory(t) ==
    LET rec == thr[t]
        st == _add_to_memory(_cache, _cache_size_bytes, disk, rec.path, rec.entry)
    IN /\ rec.pc = "put_memory"
       /\ UNCHANGED <<files, now>>
       /\ _cache' = st.cache
       /\ _cache_size_bytes' = st.bytes
       /\ disk' = st.disk
       /\ evicted' = st.evicted
       /\ UNCHANGED outside_cache
       /\ lockLog' = AddToMemoryLog(st.evicted)
       /\ useOrder' = Touched(useOrder, rec.path, _cache')
       /\ thr' = [thr EXCEPT ![t] = [rec EXCEPT !.pc = "put_disk"]]

\* put, lines 198-201, and the return of get_or_parse
PutDisk(t) ==
    LET rec == thr[t]
    IN /\ rec.pc = "put_disk"
       /\ UNCHANGED <<files, now, _cache, _cache_size_bytes>>
       /\ evicted' = << >>
       /\ UNCHANGED outside_cache
       /\ lockLog' = {Did("put", "_save_to_disk", FALSE)}
       /\ useOrder' = useOrder
       /\ disk' = SaveToDisk(disk, rec.path, rec.entry)
       /\ thr' = [thr EXCEPT ![t] = Returned(rec, TRUE, rec.entry, FALSE)]

\* invalidate, lines 318-323.  A thread starts invalidate with this step.
InvalidateMemory(t, path) ==
    LET rec == [thr[t] EXCEPT !.op = "invalidate", !.path = path,
                              !.force_refresh = FALSE,
                              !.start_version = Stat(path), !.ret = NoReturn]
    IN /\ thr[t].pc = "idle"
       /\ UNCHANGED <<files, now, disk>>
       /\ evicted' = << >>
       /\ UNCHANGED outside_cache
       /\ lockLog' = IF path \in Keys(_cache) THEN {Did("invalidate", "pop", TRUE)} ELSE {}
       /\ _cache' = Without(_cache, path)
       /\ _cache_size_bytes' = IF path \in Keys(_cache)
                               THEN _cache_size_bytes
                                      - Utf8Len(Lookup(_cache, path).content)
                               ELSE _cache_size_bytes
       /\ useOrder' = Untouched(useOrder, _cache')
       /\ thr' = [thr EXCEPT ![t] = [rec EXCEPT !.pc = "invalidate_disk"]]

\* invalidate, lines 325-331
InvalidateDisk(t) ==
    LET rec == thr[t]
    IN /\ rec.pc = "invalidate_disk"
       /\ UNCHANGED <<files, now, _cache, _cache_size_bytes>>
       /\ evicted' = << >>
       /\ UNCHANGED outside_cache
       /\ lockLog' = {Did("invalidate", "exists", FALSE)}
                     \cup (IF rec.path \in DOMAIN disk
                           THEN {Did("invalidate", "unlink", FALSE)} ELSE {})
       /\ useOrder' = useOrder
       /\ disk' = Unlink(disk, rec.path)
       /\ thr' = [thr EXCEPT ![t] = Returned(rec, FALSE, NoEntry, FALSE)]

\* clear, lines 335-337.  A thread starts clear with this step.
ClearMemory(t) ==
    LET rec == [thr[t] EXCEPT !.op = "clear", !.path = "a.txt",
                              !.force_refresh = FALSE,
                              !.start_version = Missing, !.ret = NoReturn]
    IN /\ thr[t].pc = "idle"
       /\ UNCHANGED <<files, now, disk>>
       /\ evicted' = << >>
       /\ UNCHANGED outside_cache
       /\ lockLog' = {Did("clear", "clear", TRUE)}
       /\ _cache' = << >>
       /\ _cache_size_bytes' = 0
       /\ useOrder' = << >>
       /\ thr' = [thr EXCEPT ![t] = [rec EXCEPT !.pc = "clear_disk"]]

\* clear, lines 339-347
ClearDisk(t) ==
    LET rec == thr[t]
    IN /\ rec.pc = "clear_disk"
       /\ UNCHANGED <<files, now, _cache, _cache_size_bytes>>
       /\ evicted' = << >>
       /\ UNCHANGED outside_cache
       /\ lockLog' = {Did("clear", "glob", FALSE)}
                     \cup (IF disk # << >> THEN {Did("clear", "unlink", FALSE)} ELSE {})
       /\ useOrder' = useOrder
       /\ disk' = << >>
       /\ thr' = [thr EXCEPT ![t] = Returned(rec, FALSE, NoEntry, FALSE)]

\* the clock advances
Tick ==
    /\ now < MaxTime
    /\ now' = now + 1
    /\ evicted' = << >>
    /\ UNCHANGED outside_cache
    /\ lockLog' = {}
    /\ UNCHANGED <<files, _cache, _cache_size_bytes, disk, thr, useOrder>>

\* a file is written (or created) outside the cache: its mtime advances
ModifyFile(path) ==
    /\ now > files[path].mtime
    /\ files' = [files EXCEPT ![path] = [exists |-> TRUE, mtime |-> now]]
    /\ evicted' = << >>
    /\ UNCHANGED outside_cache
    /\ lockLog' = {}
    /\ UNCHANGED <<now, _cache, _cache_size_bytes, disk, thr, useOrder>>

\* a file is removed outside the cache
DeleteFile(path) ==
    /\ files[path].exists
    /\ files' = [files EXCEPT ![path].exists = FALSE]
    /\ evicted' = << >>
    /\ UNCHANGED outside_cache
    /\ lockLog' = {}
    /\ UNCHANGED <<now, _cache, _cache_size_bytes, disk, thr, useOrder>>

\* the steps of client thread t on the paths ps
ThreadStep(t, ps) ==
    \/ \E op \in {"get", "get_or_parse"}, path \in ps, force_refresh \in BOOLEAN :
           GetMemory(t, op, path, force_refresh)
    \/ GetFromDisk(t)
    \/ GetPromote(t)
    \/ Parse(t)
    \/ PutStat(t)
    \/ PutMemory(t)
    \/ PutDisk(t)
    \/ \E path \in ps : InvalidateMemory(t, path)
    \/ InvalidateDisk(t)
    \/ ClearMemory(t)
    \/ ClearDisk(t)

\* CacheSpec: one client thread on two paths while the clock advances and
\* a.txt is written and removed
TimedPaths == {"a.txt", "b.txt"}
CacheNext ==
    \/ ThreadStep("t1", TimedPaths)
    \/ Tick
    \/ ModifyFile("a.txt")
    \/ DeleteFile("a.txt")

\* CacheLruSpec: one client thread on three paths, more than memory holds
CacheLruNext == ThreadStep("t1", Paths)

\* the steps of a client thread t that only calls get
ReaderStep(t, ps) ==
    \/ \E path \in ps, force_refresh \in BOOLEAN : GetMemory(t, "get", path, force_refresh)
    \/ GetFromDisk(t)
    \/ GetPromote(t)

\* CacheConcSpec: two client threads on one path, t1 making every call and
\* t2 calling get
SharedPaths == {"a.txt"}
CacheConcNext ==
    \/ ThreadStep("t1", SharedPaths)
    \/ ReaderStep("t2", SharedPaths)

\* CacheFailSpec: one client thread on a.txt and on c.bin, which has no
\* parser, while the clock advances and either file is removed
FailingPaths == {"a.txt", "c.bin"}
CacheFailNext ==
    \/ ThreadStep("t1", FailingPaths)
    \/ Tick
    \/ \E path \in FailingPaths : DeleteFile(path)

----------------------------------------------------------------------------
(* OllamaEmbeddings.                                                       *)
(*                                                                         *)
(* A text is [id, chars]: the first `chars` characters of the string       *)
(* `id`, so that text[:n] keeps the string and cuts the length.  The       *)
(* backend answers a prompt with a vector that is a function of the        *)
(* prompt, or raises an error whose message is a sequence of words.        *)
(* Python's list index idx is the position idx + 1 of a sequence here.     *)

Text(id, chars) == [id |-> id, chars |-> chars]

\* text[:n]
Prefix(text, n) == [text EXCEPT !.chars = IF @ > n THEN n ELSE @]

\* max_chars = 20000 and the 5000 of shorter_text = text[:5000]
max_chars == 20000
shorter_chars == 5000

\* the max_workers of the model's embed_batch calls
max_workers == 2

\* texts below both limits, between them and beyond both
ShortText == Text(1, 4999)
MiddleText == Text(2, 5001)
LongText == Text(3, 20001)

\* the lists embed_batch is called with
TextLists ==
    {<< >>, <<LongText>>, <<ShortText, ShortText>>, <<MiddleText, LongText>>,
     <<LongText, ShortText, MiddleText>>}

\* response['embedding'] of self._client.embeddings(model, prompt)
BackendEmbedding(prompt) == [of |-> prompt.id, chars |-> prompt.chars]
None == [of |-> 0, chars |-> 0]

\* str(e) of the exceptions the backend call raises
NoError == << >>
BackendErrors ==
    {<<"Context", "length", "exceeded">>, <<"input", "length", "too", "long">>,
     <<"connection", "refused">>, <<"length", "of", "context">>}

\* str(e).lower()
LowerWord(w) ==
    CASE w = "Context" -> "context"
      [] w = "Input" -> "input"
      [] w = "Length" -> "length"
      [] OTHER -> w
LowerMessage(e) == [i \in 1..Len(e) |-> LowerWord(e[i])]

\* "a b" in message
InMessage(a, b, message) ==
    \E i \in 1..(Len(message) - 1) : message[i] = a /\ message[i + 1] = b

\* "context length" in str(e).lower() or "input length" in str(e).lower()
IsLengthError(e) ==
    \/ InMessage("context", "length", LowerMessage(e))
    \/ InMessage("input", "length", LowerMessage(e))

\* a future of the pool: its state, the (index, embedding) it returns and
\* the exception it holds or has caught
Future(state, index, embedding, error) ==
    [state |-> state, index |-> index, embedding |-> embedding, error |-> error]

Finished(future) == future.state \in {"done", "raised"}

EmbInit ==
    /\ texts = << >>
    /\ embeddings = << >>
    /\ futures = << >>
    /\ yielded = << >>
    /\ backend_calls = << >>
    /\ batch = [pc |-> "idle", ret |-> << >>, error |-> NoError]

\* embed_batch is entered.  A list of at most one text is embedded by the
\* caller itself, a longer one is submitted to the pool text by text.
EmbedBatchCall(ts) ==
    /\ batch.pc \in {"idle", "returned", "raised"}
    /\ texts' = ts
    /\ embeddings' = [i \in 1..Len(ts) |-> None]
    /\ futures' = [i \in 1..Len(ts) |->
                      Future(IF Len(ts) <= 1 THEN "running" ELSE "queued",
                             i, None, NoError)]
    /\ yielded' = << >>
    /\ backend_calls' = [i \in 1..Len(ts) |-> << >>]
    /\ batch' = [pc |-> IF Len(ts) <= 1 THEN "inline" ELSE "pool",
                 ret |-> << >>, error |-> NoError]
    /\ UNCHANGED outside_embeddings

Running == {i \in DOMAIN futures : futures[i].state \in {"running", "retrying"}}

\* a worker thread of the pool takes the oldest queued work item
WorkerStart(i) ==
    /\ batch.pc \in {"pool", "unwinding"}
    /\ i \in DOMAIN futures
    /\ futures[i].state = "queued"
    /\ \A j \in 1..(i - 1) : futures[j].state # "queued"
    /\ Cardinality(Running) < max_workers
    /\ futures' = [futures EXCEPT ![i].state = "running"]
    /\ UNCHANGED <<texts, embeddings, yielded, backend_calls, batch>>
    /\ UNCHANGED outside_embeddings

\* embed up to its first backend call: the call answers (e = NoError) or
\* raises e, and e is raised again unless its message names a length
EmbedFirstCallRetryAlways(i, e) ==
    /\ i \in DOMAIN futures
    /\ futures[i].state = "running"
    /\ LET text == Prefix(texts[i], max_chars)
       IN /\ backend_calls' = [backend_calls EXCEPT ![i] = Append(@, text)]
          /\ futures' = [futures EXCEPT ![i] =
                IF e = NoError
                THEN Future("done", futures[i].index, BackendEmbedding(text), NoError)
                ELSE Future("retrying", futures[i].index, None, e)]
    /\ UNCHANGED <<texts, embeddings, yielded, batch>>
    /\ UNCHANGED outside_embeddings
EmbedFirstCall(i, e) ==
    /\ i \in DOMAIN futures
    /\ futures[i].state = "running"
    /\ LET text == Prefix(texts[i], max_chars)
       IN /\ backend_calls' = [backend_calls EXCEPT ![i] = Append(@, text)]
          /\ futures' = [futures EXCEPT ![i] =
                IF e = NoError
                THEN Future("done", futures[i].index, BackendEmbedding(text), NoError)
                ELSE IF IsLengthError(e)
                THEN Future("retrying", futures[i].index, None, e)
                ELSE Future("raised", futures[i].index, None, e)]
    /\ UNCHANGED <<texts, embeddings, yielded, batch>>
    /\ UNCHANGED outside_embeddings

\* the except branch of embed: the backend call with shorter_text, outside
\* any try
EmbedRetryCall(i, e) ==
    /\ i \in DOMAIN futures
    /\ futures[i].state = "retrying"
    /\ LET text == Prefix(texts[i], max_chars)
           shorter_text == Prefix(text, shorter_chars)
       IN /\ backend_calls' = [backend_calls EXCEPT ![i] = Append(@, shorter_text)]
          /\ futures' = [futures EXCEPT ![i] =
                IF e = NoError
                THEN Future("done", futures[i].index, BackendEmbedding(shorter_text),
                            NoError)
                ELSE Future("raised", futures[i].index, None, e)]
    /\ UNCHANGED <<texts, embeddings, yielded, batch>>
    /\ UNCHANGED outside_embeddings

\* for future in as_completed(futures): idx, embedding = future.result();
\* embeddings[idx] = embedding.  result() raises what the future holds, and
\* the exception leaves the loop.  The caller of a single embed takes its
\* result the same way.
CollectInCompletionOrder(i) ==
    /\ batch.pc \in {"inline", "pool"}
    /\ i \in DOMAIN futures
    /\ \A k \in 1..Len(yielded) : yielded[k] # i
    /\ Finished(futures[i])
    /\ yielded' = Append(yielded, i)
    /\ IF futures[i].state = "done"
       THEN /\ embeddings' = [embeddings EXCEPT ![Len(yielded) + 1] =
                                 futures[i].embedding]
            /\ batch' = batch
       ELSE /\ embeddings' = embeddings
            /\ batch' = [batch EXCEPT !.pc = "unwinding", !.error = futures[i].error]
    /\ UNCHANGED <<texts, futures, backend_calls>>
    /\ UNCHANGED outside_embeddings
Collect(i) ==
    /\ batch.pc \in {"inline", "pool"}
    /\ i \in DOMAIN futures
    /\ \A k \in 1..Len(yielded) : yielded[k] # i
    /\ Finished(futures[i])
    /\ yielded' = Append(yielded, i)
    /\ IF futures[i].state = "done"
       THEN /\ embeddings' = [embeddings EXCEPT ![futures[i].index] =
                                 futures[i].embedding]
            /\ batch' = batch
       ELSE /\ embeddings' = embeddings
            /\ batch' = [batch EXCEPT !.pc = "unwinding", !.error = futures[i].error]
    /\ UNCHANGED <<texts, futures, backend_calls>>
    /\ UNCHANGED outside_embeddings

\* return embeddings, after every future was yielded
EmbedBatchReturn ==
    /\ batch.pc \in {"inline", "pool"}
    /\ Len(yielded) = Len(futures)
    /\ batch' = [batch EXCEPT !.pc = "returned", !.ret = embeddings]
    /\ UNCHANGED <<texts, embeddings, futures, yielded, backend_calls>>
    /\ UNCHANGED outside_embeddings

\* the exception leaves the with block: executor.shutdown(wait=True) lets
\* every submitted work item finish, then embed_batch raises
EmbedBatchRaise ==
    /\ batch.pc = "unwinding"
    /\ \A i \in DOMAIN futures : Finished(futures[i])
    /\ batch' = [batch EXCEPT !.pc = "raised"]
    /\ UNCHANGED <<texts, embeddings, futures, yielded, backend_calls>>
    /\ UNCHANGED outside_embeddings

BatchIndices == 1..3

EmbedNext ==
    \/ \E ts \in TextLists : EmbedBatchCall(ts)
    \/ \E i \in BatchIndices : WorkerStart(i)
    \/ \E i \in BatchIndices, e \in BackendErrors \cup {NoError} : EmbedFirstCall(i, e)
    \/ \E i \in BatchIndices, e \in BackendErrors \cup {NoError} : EmbedRetryCall(i, e)
    \/ \E i \in BatchIndices : Collect(i)
    \/ EmbedBatchReturn
    \/ EmbedBatchRaise

----------------------------------------------------------------------------
(* DocumentChunker on its own: chunk_document applied to one text at a     *)
(* time.  chunkLast is the call and the list it returned.                  *)

\* a chunker with the three lengths of DefaultChunkerConfig scaled down;
\* a header such as "1.1 S" alone is below its min_chunk_size
ScaledChunkerConfig ==
    [chunk_size |-> 10, chunk_overlap |-> 2, min_chunk_size |-> 6]

\* text before the first header: none, below min_chunk_size, at least
\* min_chunk_size
Preambles ==
    {<< >>, <<"a", "b", "\n">>, <<"a", "b", "c", "d", "e", "f", "g", "\n">>}

\* what follows the header of a section: nothing (the section is dropped),
\* a few characters (one chunk), two sentences (an oversized section)
FirstBodies ==
    {<<"\n">>, <<"h", "i", "j", "k", "\n">>,
     <<"h", "i", "j", "k", "l", "m", ".", " ", "n", "o", "p", "q", "r", "s", "t", "u", ".", " ", "v", "w", "x", "y", "z", "\n">>}
SecondBodies ==
    {<< >>, <<"H", "I", "J", "K">>,
     <<"H", "I", "J", "K", "L", "M", ".", " ", "N", "O", "P", "Q", "R", "S", "T", "U", ".", " ", "V", "W", "X", "Y", "Z">>}

SectionedTexts ==
    {pre \o <<"1", ".", "1", " ", "S">> \o b1 \o <<"1", ".", "2", " ", "R">> \o b2 :
        pre \in Preambles, b1 \in FirstBodies, b2 \in SecondBodies}

\* paragraphs below min_chunk_size, below chunk_size and above chunk_size,
\* between blank lines of two shapes
FirstParagraphs ==
    {<<"a", "b">>, <<"a", "b", "c", "d", "e", "f", "g">>, <<"a", "b", "c", "d", "e", "f", "g", "h", "i", "j", "k", "l">>}
MiddleParagraphs ==
    {<<"m", "n">>, <<"m", "n", "o", "p", "q", "r", "s">>, <<"m", "n", "o", "p", "q", "r", "s", "t", "u", "v", "w", "x">>}
LastParagraphs ==
    {<<"A", "B">>, <<"A", "B", "C", "D", "E", "F", "G">>, <<"A", "B", "C", "D", "E", "F", "G", "H", "I", "J", "K", "L">>}
BlankLines == {<<"\n", "\n">>, <<"\n", " ", "\n">>}

ParagraphTexts ==
    {p1 \o s1 \o p2 \o <<"\n", "\n">> \o p3 :
        p1 \in FirstParagraphs, s1 \in BlankLines, p2 \in MiddleParagraphs,
        p3 \in LastParagraphs}

\* the two header lines of the docstring of _chunk_specification
HeaderSectionIncludes ==
    <<"1", ".", "1", " ", "S", "E", "C", "T", "I", "O", "N", " ", "I", "N", "C", "L", "U", "D", "E", "S">>
HeaderRelatedRequirements ==
    <<"1", ".", "2", " ", "R", "E", "L", "A", "T", "E", "D", " ", "R", "E", "Q", "U", "I", "R", "E", "M", "E", "N", "T", "S">>

\* a specification of two sections under these headers, the first with n1
\* and the second with n2 characters of body
TwoSectionText(pre, n1, n2) ==
    pre \o HeaderSectionIncludes \o <<"\n">> \o Rep("x", n1) \o <<"\n">>
        \o HeaderRelatedRequirements \o <<"\n">> \o Rep("y", n2)

\* sections of exactly min_chunk_size and of a few hundred characters under
\* the defaults, with and without text before the first header
TwoSectionTexts ==
    {TwoSectionText(pre, n1, n2) :
        pre \in {<< >>, Rep("p", 120) \o <<"\n">>}, n1 \in {79, 300},
        n2 \in {75, 300}}

\* texts under the defaults with one paragraph of exactly and of more than
\* 2 * chunk_size characters, alone and after a paragraph that is emitted
\* first, and with one oversized section of two sentences
LongTexts ==
    {Rep("w", 2000), Rep("w", 2001),
     Rep("v", 150) \o <<"\n", "\n">> \o Rep("w", 2001),
     <<"2", ".", "1", " ", "L">> \o Rep("x", 1040) \o <<".", " ">> \o Rep("y", 1100)}

\* the (configuration, text) pairs chunk_document is applied to
ChunkInputs ==
    {[cfg |-> ScaledChunkerConfig, text |-> t] :
        t \in SectionedTexts \cup ParagraphTexts}
    \cup {[cfg |-> DefaultChunkerConfig, text |-> t] :
              t \in TwoSectionTexts \cup LongTexts}

ContentTypes == {"specification", "other"}

ChunkDocument(cfg, text, content_type) ==
    /\ chunkLast' = [op |-> "chunk_document", cfg |-> cfg, text |-> text,
                     content_type |-> content_type,
                     chunks |-> chunk_document(cfg, text, 1, FileName, content_type)]
    /\ UNCHANGED <<split, outside_chunker>>

ChunkNext ==
    \E input \in ChunkInputs, content_type \in ContentTypes :
        ChunkDocument(input.cfg, input.text, content_type)

\* _split_by_size, one iteration of its while loop per step.  split.pc is
\* "loop" from the call to the return.
MaxSubChunks == 6

\* chunkers of chunk_size 10 with every kind of overlap below it: none,
\* small, half of chunk_size, more than half
SplitConfigs ==
    {[chunk_size |-> 10, chunk_overlap |-> o, min_chunk_size |-> 3] :
        o \in {0, 2, 5, 6, 9}}

\* oversized section texts (more than 2 * chunk_size characters) with no
\* sentence end, with one at each place of the first window, and with two
SplitTexts ==
    {Rep("a", 30)}
    \cup {Rep("a", k) \o <<".", " ">> \o Rep("b", 24) : k \in 4..10}
    \cup {Rep("a", 7) \o <<".", " ">> \o Rep("b", 8) \o <<".", " ">> \o Rep("c", 9)}

\* chunks = [], start = 0
SplitCall(cfg, text) ==
    /\ split.pc # "loop"
    /\ split' = [pc |-> "loop", cfg |-> cfg, text |-> text, start |-> 0,
                 chunks |-> << >>]
    /\ UNCHANGED <<chunkLast, outside_chunker>>

\* one pass through the body of while start < len(text)
SplitIteration ==
    /\ split.pc = "loop"
    /\ split.start < Len(split.text)
    /\ Len(split.chunks) < MaxSubChunks
    /\ LET cfg == split.cfg
           text == split.text
           start == split.start
           end0 == start + cfg.chunk_size
           break_point == RFindDotSpace(text, start + cfg.chunk_size \div 2,
                                        end0 + SentenceWindow)
           end == IF end0 < Len(text) /\ break_point > start
                  THEN break_point + 1 ELSE end0
           chunk_text == Strip(Slice(text, start, end))
       IN split' = [split EXCEPT
                       !.chunks = IF Len(chunk_text) >= cfg.min_chunk_size
                                  THEN Append(@, Chunk(chunk_text, 1, FileName,
                                                       Len(@), NoneText))
                                  ELSE @,
                       !.start = end - cfg.chunk_overlap]
    /\ UNCHANGED <<chunkLast, outside_chunker>>

\* the loop condition fails: return chunks
SplitReturn ==
    /\ split.pc = "loop"
    /\ ~(split.start < Len(split.text))
    /\ split' = [split EXCEPT !.pc = "done"]
    /\ UNCHANGED <<chunkLast, outside_chunker>>

SplitNext ==
    \/ \E cfg \in SplitConfigs, text \in SplitTexts : SplitCall(cfg, text)
    \/ SplitIteration
    \/ SplitReturn

----------------------------------------------------------------------------
(* MetadataIndex: index_file and scan_directory over one directory tree.   *)
(* Names are sequences of characters and paths are sequences of names.     *)

\* project_id=None
NoProjectId == -1

\* the directory tree that is scanned:
\*   r/.env  r/a.pdf  r/b.txt  r/link.pdf -> r/a.pdf
\*   r/.git/c.pdf
\*   r/sub/d.PDF  r/sub/e
RootPath == <<<<"r">>>>
DotGit == <<".", "g", "i", "t">>
SubDir == <<"s", "u", "b">>
DotEnv == <<".", "e", "n", "v">>
APdf == <<"a", ".", "p", "d", "f">>
BTxt == <<"b", ".", "t", "x", "t">>
LinkPdf == <<"l", "i", "n", "k", ".", "p", "d", "f">>
CPdf == <<"c", ".", "p", "d", "f">>
DUpperPdf == <<"d", ".", "P", "D", "F">>
ENoSuffix == <<"e">>
NoSuchPdf == <<"g", "o", "n", "e", ".", "p", "d", "f">>

\* what os.walk lists in one directory: (dirnames, filenames)
Listing(dirpath) ==
    CASE dirpath = RootPath ->
             [dirnames |-> <<DotGit, SubDir>>,
              filenames |-> <<DotEnv, APdf, BTxt, LinkPdf>>]
      [] dirpath = Append(RootPath, DotGit) ->
             [dirnames |-> << >>, filenames |-> <<CPdf>>]
      [] dirpath = Append(RootPath, SubDir) ->
             [dirnames |-> << >>, filenames |-> <<DUpperPdf, ENoSuffix>>]
      [] OTHER -> [dirnames |-> << >>, filenames |-> << >>]

Directories == {RootPath, Append(RootPath, DotGit), Append(RootPath, SubDir)}
FilesIn(dirpath) ==
    [k \in 1..Len(Listing(dirpath).filenames) |->
        Append(dirpath, Listing(dirpath).filenames[k])]
TreeFiles == UNION {SeqRange(FilesIn(d)) : d \in Directories}

\* Path.resolve(): the symbolic link is replaced by its target
Resolve(path) ==
    IF path = Append(RootPath, LinkPdf) THEN Append(RootPath, APdf) ELSE path

\* Path.name
PathName(path) == path[Len(path)]

\* a variant that takes no name for hidden
StartsWithDotNever(name) == FALSE

\* str.startswith(".")
StartsWithDot(name) == Len(name) > 0 /\ name[1] = "."

\* PurePath.suffix: from the last dot of the name on, unless that dot is the
\* first or the last character of the name
Suffix(name) ==
    LET dots == {i \in 1..Len(name) : name[i] = "."}
    IN IF dots = {} THEN << >>
       ELSE IF 1 < SetMax(dots) /\ SetMax(dots) < Len(name)
            THEN SubSeq(name, SetMax(dots), Len(name))
            ELSE << >>

\* str.lstrip(".")
LStripDots(text) ==
    LET idx == {i \in 1..Len(text) : text[i] # "."}
    IN IF idx = {} THEN << >> ELSE SubSeq(text, SetMin(idx), Len(text))

\* path.suffix.lower().lstrip(".")
SuffixExtension(path) == LStripDots(LowerText(Suffix(PathName(path))))

\* _classify_file, with the entries of ext_types that the tree uses
_classify_file(path) ==
    LET ext == LowerText(Suffix(PathName(path)))
        name_lower == LowerText(PathName(path))
    IN IF IsSubstring(<<"r", "f", "i">>, name_lower) THEN "rfi"
       ELSE IF IsSubstring(<<"s", "u", "b", "m", "i", "t", "t", "a", "l">>, name_lower)
            THEN "submittal"
       ELSE IF IsSubstring(<<"s", "p", "e", "c">>, name_lower) THEN "specification"
       ELSE IF ext = <<".", "p", "d", "f">> THEN "document"
       ELSE IF ext = <<".", "t", "x", "t">> THEN "text"
       ELSE "other"

\* the row that the INSERT of index_file carries
ExcludedRow(path, st, project_id, project_name) ==
    [id |-> 0,
     path |-> Resolve(path),
     filename |-> PathName(path),
     extension |-> IF SuffixExtension(path) = << >> THEN NoneText
                   ELSE SuffixExtension(path),
     file_type |-> _classify_file(path),
     size_bytes |-> st.st_size,
     modified_at |-> st.st_mtime,
     created_at |-> st.st_ctime,
     project_id |-> project_id,
     project_name |-> project_name]

\* a variant of the statement without its ON CONFLICT clause and without the
\* UNIQUE constraint: every call adds a row
InsertAlways(rows, excluded) ==
    Append(rows, [excluded EXCEPT !.id = Len(rows) + 1])

\* INSERT INTO files ... ON CONFLICT(path) DO UPDATE SET ...: id and
\* created_at of an existing row stay, COALESCE keeps the stored project when
\* the new one is NULL
InsertOrUpdate(rows, excluded) ==
    LET hits == {i \in 1..Len(rows) : rows[i].path = excluded.path}
    IN IF hits = {} THEN Append(rows, [excluded EXCEPT !.id = Len(rows) + 1])
       ELSE [i \in 1..Len(rows) |->
                IF i \in hits
                THEN [rows[i] EXCEPT
                         !.filename = excluded.filename,
                         !.extension = excluded.extension,
                         !.file_type = excluded.file_type,
                         !.size_bytes = excluded.size_bytes,
                         !.modified_at = excluded.modified_at,
                         !.project_id = IF excluded.project_id # NoProjectId
                                        THEN excluded.project_id ELSE @,
                         !.project_name = IF excluded.project_name # NoneText
                                          THEN excluded.project_name ELSE @]
                ELSE rows[i]]

\* index_file(path, project_id, project_name) on the rows of the table.
\* fate is what the file system and the database do during the call: "ok",
\* "gone" (the file is not there any more, or stat fails) or "raises" (the
\* statement raises, the database being locked).
index_file(rows, stat, path, project_id, project_name, fate) ==
    IF Resolve(path) \notin DOMAIN stat \/ fate = "gone"
    THEN [rows |-> rows, returned |-> "False"]
    ELSE IF fate = "raises"
    THEN [rows |-> rows, returned |-> "raised"]
    ELSE [rows |-> InsertOrUpdate(rows, ExcludedRow(path, stat[Resolve(path)],
                                                    project_id, project_name)),
          returned |-> "True"]

RECURSIVE WalkDirs(_, _, _)
\* os.walk(root_path), top-down, after dirnames[:] has dropped the hidden
\* directories: the paths of the files it lists, hidden ones included
WalkDirs(dirpath, dirnames, i) ==
    IF i > Len(dirnames) THEN << >>
    ELSE (IF StartsWithDot(dirnames[i]) THEN << >>
          ELSE FilesIn(Append(dirpath, dirnames[i]))
               \o WalkDirs(Append(dirpath, dirnames[i]),
                           Listing(Append(dirpath, dirnames[i])).dirnames, 1))
         \o WalkDirs(dirpath, dirnames, i + 1)
Walk(root_path) ==
    FilesIn(root_path) \o WalkDirs(root_path, Listing(root_path).dirnames, 1)

NoStats == [files_found |-> 0, files_indexed |-> 0, files_skipped |-> 0, errors |-> 0]

RECURSIVE ScanFiles(_, _, _, _, _, _)
\* the body of the loops of scan_directory over the files listed from
\* position i on; a.allowed_extensions is [supplied, exts], a.fate gives what
\* happens during index_file of each file
ScanFiles(listed, i, rows, stats, stat, a) ==
    IF i > Len(listed) THEN [rows |-> rows, stats |-> stats]
    ELSE LET file_path == listed[i]
             found == [stats EXCEPT !.files_found = @ + 1]
         IN IF StartsWithDot(PathName(file_path))
            THEN ScanFiles(listed, i + 1, rows, stats, stat, a)
            ELSE IF /\ a.allowed_extensions.supplied
                    /\ a.allowed_extensions.exts # {}
                    /\ SuffixExtension(file_path) \notin a.allowed_extensions.exts
            THEN ScanFiles(listed, i + 1, rows,
                           [found EXCEPT !.files_skipped = @ + 1], stat, a)
            ELSE LET r == index_file(rows, stat, file_path, a.project_id,
                                     a.project_name, a.fate[file_path])
                 IN ScanFiles(listed, i + 1, r.rows,
                              CASE r.returned = "True" ->
                                       [found EXCEPT !.files_indexed = @ + 1]
                                [] r.returned = "False" ->
                                       [found EXCEPT !.files_skipped = @ + 1]
                                [] OTHER -> [found EXCEPT !.errors = @ + 1],
                              stat, a)

\* the most scans and the most writes to one file that are followed
MaxScans == 2
MaxWrites == 1

Pdf == <<"p", "d", "f">>
Txt == <<"t", "x", "t">>
AllowedExtensions ==
    {[supplied |-> FALSE, exts |-> {}], [supplied |-> TRUE, exts |-> {}],
     [supplied |-> TRUE, exts |-> {Pdf}]}
ProjectArguments ==
    {[project_id |-> NoProjectId, project_name |-> NoneText],
     [project_id |-> 1, project_name |-> <<"o", "n", "e">>],
     [project_id |-> 2, project_name |-> NoneText]}
FileFates == {"ok", "gone", "raises"}
NoTrouble == [f \in TreeFiles |-> "ok"]
\* at most one file of a scan meets trouble
ScanFates ==
    {NoTrouble} \cup
    {[f \in TreeFiles |-> IF f = Append(RootPath, APdf) THEN fate ELSE "ok"] :
        fate \in {"gone", "raises"}}
IndexablePaths ==
    {Append(RootPath, APdf), Append(RootPath, LinkPdf), Append(RootPath, SubDir),
     Append(RootPath, NoSuchPdf)}

MetaInit ==
    /\ catalog = << >>
    /\ scan_history = << >>
    /\ tree_stat = [f \in {Resolve(p) : p \in TreeFiles} |->
                       [st_size |-> 1, st_mtime |-> 1, st_ctime |-> 1]]
    /\ mdLast = [op |-> "none"]

\* index_file(path, project_id, project_name)
IndexFile(path, project_id, project_name, fate) ==
    /\ LET r == index_file(catalog, tree_stat, path, project_id, project_name, fate)
       IN /\ catalog' = r.rows
          /\ mdLast' = [op |-> "index_file", path |-> path, project_id |-> project_id,
                        project_name |-> project_name, returned |-> r.returned]
    /\ UNCHANGED <<scan_history, tree_stat, outside_metadata>>

\* scan_directory(root_path, project_id, project_name, allowed_extensions)
ScanDirectory(root_path, project_id, project_name, allowed_extensions, fate) ==
    /\ Len(scan_history) < MaxScans
    /\ LET r == ScanFiles(Walk(root_path), 1, catalog, NoStats, tree_stat,
                          [project_id |-> project_id, project_name |-> project_name,
                           allowed_extensions |-> allowed_extensions, fate |-> fate])
       IN /\ catalog' = r.rows
          /\ scan_history' = Append(scan_history,
                                    [root_path |-> root_path,
                                     files_found |-> r.stats.files_found,
                                     files_added |-> r.stats.files_indexed,
                                     status |-> "completed"])
          /\ mdLast' = [op |-> "scan_directory", project_id |-> project_id,
                        project_name |-> project_name,
                        allowed_extensions |-> allowed_extensions,
                        fate |-> fate, returned |-> r.stats]
    /\ UNCHANGED <<tree_stat, outside_metadata>>

\* a program outside writes to a file of the tree
WriteFile(path) ==
    /\ tree_stat[path].st_size <= MaxWrites
    /\ tree_stat' = [tree_stat EXCEPT ![path] = [st_size |-> @.st_size + 1,
                                                 st_mtime |-> @.st_mtime + 1,
                                                 st_ctime |-> @.st_ctime + 1]]
    /\ UNCHANGED <<catalog, scan_history, mdLast, outside_metadata>>

\* calls of index_file and of scan_directory without a filter
MetaNext ==
    \/ \E path \in IndexablePaths, p \in ProjectArguments, fate \in FileFates :
           IndexFile(path, p.project_id, p.project_name, fate)
    \/ \E p \in ProjectArguments :
           ScanDirectory(RootPath, p.project_id, p.project_name,
                         [supplied |-> FALSE, exts |-> {}], NoTrouble)
    \/ WriteFile(Append(RootPath, APdf))

\* scans with and without a filter, with and without trouble
ScanNext ==
    \/ \E p \in ProjectArguments, allowed \in AllowedExtensions, fate \in ScanFates :
           ScanDirectory(RootPath, p.project_id, p.project_name, allowed, fate)
    \/ WriteFile(Append(RootPath, APdf))

----------------------------------------------------------------------------
(* Two threads call index_document of one KnowledgeBase for the same       *)
(* file_id with different contents.  Each call is taken one store          *)
(* operation at a time: the get and the delete of delete_by_metadata, then *)
(* the add of add_documents; chunking and embedding touch no shared state. *)

Callers == {"A", "B"}
\* the project and the file_id of both calls
ReindexTarget == [project_id |-> 1, file_id |-> 1]
ReindexInputs == {<<"paragraphs", FALSE>>, <<"sections", TRUE>>, <<"long", TRUE>>}

IdleCall == [pc |-> "idle", content |-> "blank", is_specification |-> FALSE, ids |-> {}]

ReindexInit == reindex = [c \in Callers |-> IdleCall]

\* both threads enter index_document: the content is not blank, so each goes
\* on to remove_document
BeginBoth(inA, inB) ==
    /\ \A c \in Callers : reindex[c].pc \in {"idle", "done"}
    /\ inA[1] # inB[1]
    /\ reindex' = [c \in Callers |->
                      LET in == IF c = "A" THEN inA ELSE inB
                      IN [pc |-> "get", content |-> in[1], is_specification |-> in[2],
                          ids |-> {}]]
    /\ UNCHANGED <<store, kbLast, cachevars, embvars, chunkvars, mdvars>>

\* delete_by_metadata: results = self._collection.get(where={...})
GetIds(c) ==
    /\ reindex[c].pc = "get"
    /\ reindex' = [reindex EXCEPT
                      ![c].pc = "delete",
                      ![c].ids = {r.id : r \in FileRecords(store[CollectionName(ReindexTarget.project_id)],
                                                          ReindexTarget.file_id)}]
    /\ UNCHANGED <<store, kbLast, cachevars, embvars, chunkvars, mdvars>>

\* delete_by_metadata: self._collection.delete(ids=results['ids']), when
\* there are any
DeleteIds(c) ==
    /\ reindex[c].pc = "delete"
    /\ store' = [store EXCEPT ![CollectionName(ReindexTarget.project_id)] =
                                  {r \in @ : r.id \notin reindex[c].ids}]
    /\ reindex' = [reindex EXCEPT ![c].pc = "add"]
    /\ UNCHANGED <<kbLast, cachevars, embvars, chunkvars, mdvars>>

\* the records index_document adds for the content of caller c
CallRecords(call) ==
    ChunkRecords(KBChunks[call.content, ReindexTarget.file_id, call.is_specification],
                 ReindexTarget.file_id, ReindexTarget.project_id)

\* chunk_document, embed_batch and add_documents; the call returns
AddChunks(c) ==
    /\ reindex[c].pc = "add"
    /\ store' = [store EXCEPT ![CollectionName(ReindexTarget.project_id)] =
                                  add_documents(@, CallRecords(reindex[c]))]
    /\ reindex' = [reindex EXCEPT ![c].pc = "done"]
    /\ UNCHANGED <<kbLast, cachevars, embvars, chunkvars, mdvars>>

ReindexNext ==
    \/ \E inA \in ReindexInputs, inB \in ReindexInputs : BeginBoth(inA, inB)
    \/ \E c \in Callers : GetIds(c)
    \/ \E c \in Callers : DeleteIds(c)
    \/ \E c \in Callers : AddChunks(c)

----------------------------------------------------------------------------
(* The specifications.                                                     *)

ChunkInit ==
    /\ chunkLast = [op |-> "none"]
    /\ split = [pc |-> "idle", cfg |-> ScaledChunkerConfig, text |-> << >>,
                start |-> 0, chunks |-> << >>]

Init == KBInit /\ CacheInit /\ EmbInit /\ ChunkInit /\ MetaInit /\ ReindexInit

CacheSpec == Init /\ [][CacheNext]_vars
CacheLruSpec == Init /\ [][CacheLruNext]_vars
CacheConcSpec == Init /\ [][CacheConcNext]_vars
CacheFailSpec == Init /\ [][CacheFailNext]_vars
KBSpec == Init /\ [][KBNext]_vars
EmbedSpec == Init /\ [][EmbedNext]_vars
ScoreSpec == Init /\ [][ScoreNext]_vars
FusionSpec == Init /\ [][FusionNext]_vars
HybridSpec == Init /\ [][HybridNext]_vars
ChunkSpec == Init /\ [][ChunkNext]_vars
SplitSpec == Init /\ [][SplitNext]_vars
MetaSpec == Init /\ [][MetaNext]_vars
ScanSpec == Init /\ [][ScanNext]_vars
ReindexSpec == Init /\ [][ReindexNext]_vars

----------------------------------------------------------------------------
(* Claims about the content cache.                                         *)

\* the file has changed since entry was cached
FileChanged(entry, path) == Stat(path) > entry.file_modified
\* entry is older than the TTL
Expired(entry) == now - entry.cached_at > ttl_seconds

\* thread t has just been told that the cache has no valid entry: get has
\* returned None, get_or_parse goes on to the parser
ReportsMiss(t) ==
    \/ thr[t].op = "get" /\ thr[t].pc = "idle" /\ ~thr[t].ret.found
    \/ thr[t].op = "get_or_parse" /\ thr[t].pc = "parse"

\* C4: get(path) never returns an entry, from memory or from the durable
\* overflow, whose file has an mtime greater than the recorded one or whose
\* age exceeds ttl_seconds: it reports a miss and the entry is removed from
\* where it was found; and a get_or_parse that finds such an entry returns
\* was_cached = False with the content the parser read during the call.
C4_CacheValidity ==
    [][\A t \in Threads :
        /\ \A op \in {"get", "get_or_parse"}, path \in Paths :
              (/\ GetMemory(t, op, path, FALSE)
               /\ path \in Keys(_cache)
               /\ FileChanged(Lookup(_cache, path), path) \/ Expired(Lookup(_cache, path)))
              => ReportsMiss(t)' /\ path \notin Keys(_cache')
        /\ (/\ GetFromDisk(t)
            /\ thr[t].path \in DOMAIN disk
            /\ FileChanged(disk[thr[t].path], thr[t].path) \/ Expired(disk[thr[t].path]))
           => ReportsMiss(t)' /\ thr[t].path \notin DOMAIN disk'
        /\ (PutDisk(t) /\ thr[t].op = "get_or_parse")
           => /\ ~thr'[t].ret.was_cached
              /\ thr'[t].ret.entry.content = thr[t].parsed.content
       ]_vars

\* C5: a get_or_parse call never returns content parsed from a version of
\* the file that is older than the version the file had when the call
\* started.
C5_NoStaleContent ==
    \A t \in Threads :
        (thr[t].pc = "idle" /\ thr[t].op = "get_or_parse" /\ thr[t].ret.found)
        => \/ thr[t].ret.entry.version = Missing
           \/ thr[t].ret.entry.version >= thr[t].start_version

\* C6: whenever no call is in progress, memory holds at most
\* max_memory_items entries and the UTF-8 sizes of their contents add up to
\* at most max_memory_bytes.
C6_MemoryBudget ==
    (\A t \in Threads : thr[t].pc = "idle")
    => /\ Len(_cache) <= max_memory_items
       /\ MemoryBytes(_cache) <= max_memory_bytes

\* the most recently used entry of memory is the one of key
MostRecentlyUsed(cache, key) == cache # << >> /\ cache[Len(cache)].key = key

\* C7: a memory hit, a put and a promotion from the durable overflow each
\* leave their entry the most recently used one; the entries an insertion
\* evicts are, in order, those whose latest use is the oldest among the
\* entries in memory other than the inserted one, and no other entry leaves
\* memory.
C7_LruOrder ==
    [][\A t \in Threads :
        /\ \A op \in {"get", "get_or_parse"}, path \in Paths :
              (GetMemory(t, op, path, FALSE) /\ thr'[t].pc = "idle" /\ thr'[t].ret.found)
              => MostRecentlyUsed(_cache', path)
        /\ (PutMemory(t) \/ GetPromote(t))
           => LET others == SelectSeq(useOrder, LAMBDA k : k # thr[t].path)
              IN /\ MostRecentlyUsed(_cache', thr[t].path)
                 /\ Len(evicted') <= Len(others)
                 /\ \A i \in 1..Len(evicted') : evicted'[i].key = others[i]
                 /\ Keys(_cache') = (Keys(_cache) \cup {thr[t].path})
                                      \ {evicted'[i].key : i \in 1..Len(evicted')}
       ]_vars

\* an insertion has evicted an entry that had been hit, from a full memory
C7_Witness ==
    /\ evicted # << >>
    /\ evicted[1].entry.access_count >= 1
    /\ Len(_cache) = max_memory_items
    /\ thr["t1"].op = "get_or_parse"

C8_EvictionStep ==
    [][\A i \in 1..Len(evicted') :
          LET key == evicted'[i].key
          IN /\ key \in DOMAIN disk'
             /\ evicted'[i].entry.access_count > 1 => disk'[key] = evicted'[i].entry
             /\ evicted'[i].entry.access_count <= 1
                => key \in DOMAIN disk /\ disk'[key] = disk[key]
       ]_vars
C8_CopyOnDisk ==
    (\A t \in Threads : thr[t].pc = "idle") => Keys(_cache) \subseteq DOMAIN disk
C9_DurableFallThrough ==
    [][\A t \in Threads :
        /\ (GetFromDisk(t) /\ thr[t].path \in DOMAIN disk)
           => LET path == thr[t].path
              IN /\ (FileChanged(disk[path], path) \/ Expired(disk[path]))
                    => ReportsMiss(t)' /\ path \notin DOMAIN disk'
                 /\ (/\ Stat(path) # Missing
                     /\ ~FileChanged(disk[path], path)
                     /\ ~Expired(disk[path]))
                    => /\ thr'[t].pc = "get_promote"
                       /\ thr'[t].entry = disk[path]
                       /\ disk' = disk
        /\ GetPromote(t)
           => /\ thr'[t].pc = "idle"
              /\ thr'[t].ret.found
              /\ thr'[t].ret.entry = thr[t].entry
              /\ MostRecentlyUsed(_cache', thr[t].path)
              /\ Lookup(_cache', thr[t].path) = thr[t].entry
       ]_vars

\* a put for path is in flight: some get_or_parse for it has not returned
PutInFlight(path) ==
    \E u \in Threads :
        thr[u].path = path /\ thr[u].op = "get_or_parse" /\ thr[u].pc # "idle"

\* C10: when invalidate(path) returns and no put for path is in flight,
\* neither memory nor the durable overflow holds an entry for path, and
\* invalidate changes no entry of another path; when clear() returns and no
\* put is in flight, both are empty.
C10_InvalidateComplete ==
    [][\A t \in Threads :
        /\ (InvalidateDisk(t) /\ ~PutInFlight(thr[t].path))
           => /\ thr[t].path \notin Keys(_cache')
              /\ thr[t].path \notin DOMAIN disk'
        /\ \A path \in Paths :
              InvalidateMemory(t, path) => Without(_cache', path) = Without(_cache, path)
        /\ InvalidateDisk(t)
           => \A path \in Paths \ {thr[t].path} :
                 /\ path \in DOMAIN disk' <=> path \in DOMAIN disk
                 /\ path \in DOMAIN disk => disk'[path] = disk[path]
        /\ (ClearDisk(t) /\ \A path \in Paths : ~PutInFlight(path))
           => _cache' = << >> /\ disk' = << >>
       ]_vars

\* the last call of thread t was a get_or_parse of path that returned the
\* parser's failure, and thread t is free to make its next call
ReturnedFailure(t, path) ==
    /\ thr[t].pc = "idle"
    /\ thr[t].ret.op = "get_or_parse"
    /\ thr[t].ret.path = path
    /\ thr[t].ret.found
    /\ ~thr[t].ret.was_cached
    /\ thr[t].ret.entry.metadata = "error"

\* the failure that get_or_parse returns and caches when the parser fails
FailureReturned(t) ==
    (PutDisk(t) /\ thr[t].op = "get_or_parse" /\ thr[t].parsed.metadata = "error")
    => /\ thr'[t].pc = "idle"
       /\ thr'[t].ret.found
       /\ ~thr'[t].ret.was_cached
       /\ thr'[t].ret.entry.metadata = "error"
       /\ Len(thr'[t].ret.entry.content) = 3
       /\ thr'[t].ret.entry.content[1] = "(parsing failed: "
       /\ thr'[t].ret.entry.content[3] = ")"
       /\ thr[t].path \in Keys(_cache')
       /\ Lookup(_cache', thr[t].path) = thr'[t].ret.entry
       /\ disk'[thr[t].path] = thr'[t].ret.entry

\* C11 as stated: a parser failure is returned as '(parsing failed: e)' with
\* metadata {error: e} and was_cached = False and is cached, and the next
\* get_or_parse of the thread on the same path, the file not changed since
\* and the entry within its TTL, returns the same text with was_cached =
\* True without calling the parser.
C11_FailureServedFromCache ==
    [][\A t \in Threads :
        /\ FailureReturned(t)
        /\ \A path \in Paths :
              (/\ ReturnedFailure(t, path)
               /\ GetMemory(t, "get_or_parse", path, FALSE)
               /\ ~FileChanged(thr[t].ret.entry, path)
               /\ ~Expired(thr[t].ret.entry))
              => /\ thr'[t].pc = "idle"
                 /\ thr'[t].ret.was_cached
                 /\ thr'[t].ret.entry.content = thr[t].ret.entry.content
       ]_vars

\* C11, amended: as stated when the file exists at the next call; when the
\* file is missing at the next call, that call drops the cached failure and
\* goes on to call the parser again.
C11_FailureAbsorbed ==
    [][\A t \in Threads :
        /\ FailureReturned(t)
        /\ \A path \in Paths :
              (/\ ReturnedFailure(t, path)
               /\ GetMemory(t, "get_or_parse", path, FALSE)
               /\ ~FileChanged(thr[t].ret.entry, path)
               /\ ~Expired(thr[t].ret.entry))
              => IF Stat(path) # Missing
                 THEN /\ thr'[t].pc = "idle"
                      /\ thr'[t].ret.was_cached
                      /\ thr'[t].ret.entry.content = thr[t].ret.entry.content
                      /\ thr'[t].ret.entry.metadata = "error"
                 ELSE /\ thr'[t].pc = "parse"
                      /\ path \notin Keys(_cache')
       ]_vars

\* get_or_parse has returned a cached parser failure
C11_Witness ==
    /\ thr["t1"].pc = "idle"
    /\ thr["t1"].ret.op = "get_or_parse"
    /\ thr["t1"].ret.found
    /\ thr["t1"].ret.was_cached
    /\ thr["t1"].ret.entry.metadata = "error"
    /\ thr["t1"].ret.entry.content[1] = "(parsing failed: "

----------------------------------------------------------------------------
(* Claims about the embedding service.                                     *)

LastCall(i) == backend_calls[i][Len(backend_calls[i])]

C12_ReturnedInOrder ==
    batch.pc = "returned" =>
        /\ Len(batch.ret) = Len(texts)
        /\ \A i \in DOMAIN texts :
              /\ batch.ret[i] # None
              /\ backend_calls[i] # << >>
              /\ LastCall(i).id = texts[i].id
              /\ batch.ret[i] = BackendEmbedding(LastCall(i))

C12_OwnSlotOnly ==
    [][\A i \in BatchIndices :
          Collect(i) => \A j \in DOMAIN embeddings :
                           j # i => embeddings'[j] = embeddings[j]]_vars

C12_FailureFailsBatch ==
    batch.pc = "returned" => \A i \in DOMAIN futures : futures[i].state = "done"

\* C12: for every input list and every order in which the parallel embed
\* calls complete, the list embed_batch returns has the length of the input
\* and its i-th vector is the embedding of the i-th text; taking the result
\* of the worker of index i writes no slot but slot i, no slot is left
\* unfilled, and embed_batch does not return when an embed call has failed.
C12_OrderPreservation ==
    /\ []C12_ReturnedInOrder
    /\ C12_OwnSlotOnly
    /\ []C12_FailureFailsBatch

\* a batch of three texts returned although the last text completed first,
\* one of the embed calls having been retried
C12_Witness ==
    /\ batch.pc = "returned"
    /\ Len(texts) = 3
    /\ yielded = <<3, 1, 2>>
    /\ \E i \in DOMAIN texts : Len(backend_calls[i]) = 2

\* the messages of the model that report a context-length or input-length
\* error
LengthErrors ==
    {<<"Context", "length", "exceeded">>, <<"input", "length", "too", "long">>}

C13_BackendCalls ==
    \A i \in DOMAIN futures :
        LET calls == backend_calls[i]
        IN /\ Len(calls) <= 2
           /\ Len(calls) >= 1 =>
                 /\ calls[1] = Prefix(texts[i], 20000)
                 /\ calls[1].chars <= 20000
           /\ Len(calls) = 2 => calls[2] = Prefix(texts[i], 5000)
           /\ futures[i].state = "retrying" =>
                 Len(calls) = 1 /\ futures[i].error \in LengthErrors
           /\ futures[i].state = "done" =>
                 futures[i].embedding = BackendEmbedding(LastCall(i))

C13_FirstCallStep ==
    [][\A i \in BatchIndices, e \in BackendErrors \cup {NoError} :
          EmbedFirstCall(i, e) =>
              /\ Len(backend_calls'[i]) = 1
              /\ futures'[i].state =
                    IF e = NoError THEN "done"
                    ELSE IF e \in LengthErrors THEN "retrying" ELSE "raised"
              /\ e # NoError => futures'[i].error = e]_vars

C13_RetryStep ==
    [][\A i \in BatchIndices, e \in BackendErrors \cup {NoError} :
          EmbedRetryCall(i, e) =>
              /\ Len(backend_calls'[i]) = 2
              /\ IF e = NoError
                 THEN /\ futures'[i].state = "done"
                      /\ futures'[i].embedding =
                            BackendEmbedding(Prefix(texts[i], 5000))
                 ELSE /\ futures'[i].state = "raised"
                      /\ futures'[i].error = e]_vars

\* C13: embed sends the backend the first 20,000 characters of the text at
\* most; when that call raises a context-length or input-length error embed
\* makes one more call, with the first 5,000 characters, and returns its
\* result or raises its error; any other error of the first call is raised
\* without a second call.  An embed makes at most two backend calls.
C13_EmbeddingRetry ==
    /\ []C13_BackendCalls
    /\ C13_FirstCallStep
    /\ C13_RetryStep

\* an embed of a text longer than 20,000 characters returned the result of
\* its second call, another one raised after a single call
C13_Witness ==
    /\ \E i \in DOMAIN futures :
          /\ texts[i].chars > 20000
          /\ futures[i].state = "done"
          /\ Len(backend_calls[i]) = 2
    /\ \E i \in DOMAIN futures :
          /\ futures[i].state = "raised"
          /\ Len(backend_calls[i]) = 1

----------------------------------------------------------------------------
(* Claims about the scores of the searches.                                *)

C14_InRange ==
    kbLast.op = "vector_search" =>
        LET d == kbLast.prior
            score == kbLast.results[1].score
        IN /\ 0 <= score /\ score <= ScoreOne
           /\ d = 0 => score = ScoreOne
           /\ d = 2 * ScoreOne => score = 0

C14_NonIncreasing ==
    [][(/\ kbLast.op = "vector_search"
        /\ kbLast'.op = "vector_search"
        /\ kbLast.prior <= kbLast'.prior)
       => kbLast.results[1].score >= kbLast'.results[1].score]_vars

\* C14: for every distance d between 0 and 2 the index reports, the score
\* of the result lies between 0 and 1, is 1 for d = 0 and 0 for d = 2, and
\* a result at a larger distance never has a larger score.
C14_ScoreRange ==
    /\ []C14_InRange
    /\ C14_NonIncreasing

\* a result at the largest distance, with the score 0
C14_Witness ==
    /\ kbLast.op = "vector_search"
    /\ kbLast.prior = 2 * ScoreOne
    /\ kbLast.results[1].score = 0

\* C15: whatever the queries and however many of them return the same
\* chunk, every result search_multi_query returns has a score of at most 1.0.
C15_BoostBounded ==
    kbLast.op = "search_multi_query" =>
        \A i \in 1..Len(kbLast.results) :
            /\ kbLast.results[i].score <= ScoreOne
            /\ kbLast.results[i].score >= 0

\* a chunk returned by three queries, boosted beyond 1.0 and reported as 1.0
C15_Witness ==
    /\ kbLast.op = "search_multi_query"
    /\ \E i \in 1..Len(kbLast.results) :
          /\ kbLast.sorted_results[i].match_count >= 3
          /\ kbLast.sorted_results[i].score > ScoreOne * BoostScale
          /\ kbLast.results[i].score = ScoreOne

\* the dedup key of a search result: source_file_id and the first 200
\* characters of the text
FusionKey(r) ==
    <<r.metadata.source_file_id,
      SubSeq(r.text, 1, IF Len(r.text) < 200 THEN Len(r.text) ELSE 200)>>

\* the scores of the results with the dedup key `key`, in the order in which
\* the queries that reach search, from the q-th on, return them
RECURSIVE KeyHits(_, _, _)
KeyHits(call, key, q) ==
    IF q > Len(call.searched) THEN << >>
    ELSE LET results == KBSearchResults(store[CollectionName(call.project)],
                                        call.searched[q], call.n_results_per_query,
                                        call.min_score)
             mine == SelectSeq(results, LAMBDA r : FusionKey(r) = key)
         IN [i \in 1..Len(mine) |-> mine[i].score] \o KeyHits(call, key, q + 1)

\* the score stored after the first n hits: the first hit stores its score,
\* every later one replaces it by max(stored, new) * 1.1
RECURSIVE BoostedScore(_, _)
BoostedScore(hits, n) ==
    IF n = 1 THEN hits[1] * BoostScale
    ELSE LET stored == BoostedScore(hits, n - 1)
             new == hits[n] * BoostScale
         IN ((IF stored >= new THEN stored ELSE new) \div 10) * 11

\* C16: search_multi_query hands the queries to search in list order and
\* never one that is empty or shorter than 5 characters; the score of a
\* dedup key is the score of its first result, replaced at every later
\* result with the key by max(stored, new) * 1.1; the output has each key at
\* most once, is ordered by boosted score descending, has at most
\* max_total_results entries, and every entry is a chunk that some query
\* returned with a score of at least min_score.
C16_MultiQueryFusion ==
    kbLast.op = "search_multi_query" =>
        LET call == kbLast
            out == call.sorted_results
        IN /\ call.searched
                = SelectSeq(call.queries, LAMBDA q : q \in SeqRange(call.searched))
           /\ \A k \in 1..Len(call.queries) :
                 Len(call.queries[k]) < 5 =>
                     call.queries[k] \notin SeqRange(call.searched)
           /\ Len(call.results) = Len(out)
           /\ Len(call.results) <= call.max_total_results
           /\ \A i, j \in 1..Len(out) :
                 i < j => /\ out[i].key # out[j].key
                          /\ out[i].score >= out[j].score
           /\ \A i \in 1..Len(out) :
                 LET hits == KeyHits(call, out[i].key, 1)
                 IN /\ hits # << >>
                    /\ \A h \in 1..Len(hits) : hits[h] >= call.min_score
                    /\ out[i].score = BoostedScore(hits, Len(hits))
                    /\ call.results[i].source_file_id = out[i].key[1]

\* a call with a skipped query that returns two chunks, one of them boosted
C16_Witness ==
    /\ kbLast.op = "search_multi_query"
    /\ Len(kbLast.searched) < Len(kbLast.queries)
    /\ Len(kbLast.results) >= 2
    /\ \E i \in 1..Len(kbLast.results) : kbLast.sorted_results[i].match_count >= 2

\* kw occurs in text as a substring
Occurs(kw, text) ==
    \E a \in 1..(Len(text) + 1) :
        /\ a + Len(kw) - 1 <= Len(text)
        /\ SubSeq(text, a, a + Len(kw) - 1) = kw

\* the combined score of the i-th candidate of a hybrid call when count of
\* its keywords occur, in units of 1 / (ScoreOne * ScoreOne * max(n, 1))
HybridCombined(call, i, count) ==
    LET n == IF Len(call.keywords) > 1 THEN Len(call.keywords) ELSE 1
    IN call.semantic_results[i].score * call.semantic_weight * n
         + count * ScoreOne * call.keyword_weight

\* what the unit of HybridCombined is worth in units of 1 / ScoreOne
HybridUnit(call) ==
    ScoreOne * (IF Len(call.keywords) > 1 THEN Len(call.keywords) ELSE 1)

\* the candidates are the 3 * n_results nearest records, scored without a
\* floor
HybridCandidates(call) ==
    LET coll == store[CollectionName(call.project)]
        cands == call.semantic_results
        ids == {<<cands[i].metadata.source_file_id, cands[i].metadata.chunk_index>> :
                   i \in 1..Len(cands)}
    IN /\ Len(cands) = IF Cardinality(coll) < 3 * call.n_results
                       THEN Cardinality(coll) ELSE 3 * call.n_results
       /\ Cardinality(ids) = Len(cands)
       /\ \A r \in coll : r.id \notin ids =>
             \A i \in ids : call.distances[i] <= call.distances[r.id]

\* the keywords of the call that occur, as they are, in the lowercased text
\* of the i-th candidate
KeywordsFound(call, i) ==
    Cardinality({k \in 1..Len(call.keywords) :
                    Occurs(call.keywords[k], LowerText(call.semantic_results[i].text))})

\* the keywords of the call that occur, lowercased, in the lowercased text
\* of the i-th candidate
KeywordsFoundAnyCase(call, i) ==
    Cardinality({k \in 1..Len(call.keywords) :
                    Occurs(LowerText(call.keywords[k]),
                           LowerText(call.semantic_results[i].text))})

\* C17 as stated: the keyword score counts the keywords that occur in the
\* lowercased text, the output is the candidates whose combined score is at
\* least min_score, in non-increasing order of the combined score, cut to
\* n_results.
C17_HybridScoring ==
    kbLast.op = "hybrid_search" =>
        LET call == kbLast
            out == call.results
            passing == {i \in 1..Len(call.semantic_results) :
                           HybridCombined(call, i, KeywordsFound(call, i))
                             >= call.min_score * HybridUnit(call)}
        IN /\ HybridCandidates(call)
           /\ Len(out) = IF Cardinality(passing) < call.n_results
                         THEN Cardinality(passing) ELSE call.n_results
           /\ \A k \in 1..Len(out) :
                 /\ out[k].candidate \in passing
                 /\ out[k].combined
                      = HybridCombined(call, out[k].candidate,
                                       KeywordsFound(call, out[k].candidate))
                 /\ out[k].keyword_score >= 0 /\ out[k].keyword_score <= ScoreOne
                 /\ call.keywords = << >> => out[k].keyword_score = 0
           /\ \A k, l \in 1..Len(out) :
                 k < l => /\ out[k].candidate # out[l].candidate
                          /\ out[k].combined >= out[l].combined
           /\ \A i \in passing :
                 (\A k \in 1..Len(out) : out[k].candidate # i) =>
                     \A k \in 1..Len(out) :
                         out[k].combined
                           >= HybridCombined(call, i, KeywordsFound(call, i))

\* C17, amended: the keyword score counts the keywords whose lowercased form
\* occurs in the lowercased text; the output is the candidates whose
\* combined score is at least min_score, in non-increasing order of the
\* combined score rounded to four decimals, candidates of equal rounded
\* score in the order of the semantic search, cut to n_results.
C17_HybridScoringRounded ==
    kbLast.op = "hybrid_search" =>
        LET call == kbLast
            out == call.results
            all == call.scored_results
            count(i) == KeywordsFoundAnyCase(call, i)
            passing == {i \in 1..Len(call.semantic_results) :
                           HybridCombined(call, i, count(i))
                             >= call.min_score * HybridUnit(call)}
        IN /\ HybridCandidates(call)
           /\ {all[k].candidate : k \in 1..Len(all)} = passing
           /\ Len(all) = Cardinality(passing)
           /\ out = SubSeq(all, 1, IF Len(all) < call.n_results
                                   THEN Len(all) ELSE call.n_results)
           /\ \A k \in 1..Len(all) :
                 LET i == all[k].candidate
                 IN /\ all[k].combined = HybridCombined(call, i, count(i))
                    /\ all[k].score = RoundDiv(all[k].combined, HybridUnit(call))
                    /\ all[k].semantic_score = call.semantic_results[i].score
                    /\ all[k].keyword_score
                         = RoundDiv(count(i) * ScoreOne,
                                    HybridUnit(call) \div ScoreOne)
                    /\ all[k].keyword_score >= 0
                    /\ all[k].keyword_score <= ScoreOne
                    /\ call.keywords = << >> => all[k].keyword_score = 0
           /\ \A k, l \in 1..Len(all) :
                 k < l => \/ all[k].score > all[l].score
                          \/ /\ all[k].score = all[l].score
                             /\ all[k].candidate < all[l].candidate

\* two candidates have the same rounded score and the cut to n_results
\* keeps the one of them that has the lower combined score
C17_Witness ==
    /\ kbLast.op = "hybrid_search"
    /\ \E k, l \in 1..Len(kbLast.scored_results) :
          /\ k <= kbLast.n_results
          /\ kbLast.n_results < l
          /\ kbLast.scored_results[k].score = kbLast.scored_results[l].score
          /\ kbLast.scored_results[k].combined < kbLast.scored_results[l].combined

\* the i-th candidate contains every keyword of the call
HasEveryKeyword(call, i) == KeywordsFoundAnyCase(call, i) = Len(call.keywords)

\* the places of the i-th candidate in scored_results
PlacesOf(call, i) ==
    {k \in 1..Len(call.scored_results) : call.scored_results[k].candidate = i}

\* C18 as stated: with the keywords derived from the query and the weights
\* 0.7 and 0.3, a candidate whose text contains every keyword has the
\* keyword score 1.0 and is ranked ahead of every candidate that lacks a
\* keyword.
C18_VerbatimMatchFirst ==
    (kbLast.op = "hybrid_search" /\ kbLast.derived) =>
        LET call == kbLast
        IN \A i \in 1..Len(call.semantic_results) :
              HasEveryKeyword(call, i) =>
                  /\ PlacesOf(call, i) # {}
                  /\ \A k \in PlacesOf(call, i) :
                        /\ call.scored_results[k].keyword_score = ScoreOne
                        /\ \A l \in 1..(k - 1) :
                              HasEveryKeyword(call, call.scored_results[l].candidate)

\* C18, amended: when the query yields at least one keyword, a candidate
\* whose text contains every keyword has the keyword score 1.0 and is
\* ranked ahead of every candidate that lacks a keyword and has no higher
\* semantic score.
C18_VerbatimMatchAhead ==
    (kbLast.op = "hybrid_search" /\ kbLast.derived /\ kbLast.keywords # << >>) =>
        LET call == kbLast
        IN \A i \in 1..Len(call.semantic_results) :
              HasEveryKeyword(call, i) =>
                  /\ PlacesOf(call, i) # {}
                  /\ \A k \in PlacesOf(call, i) :
                        /\ call.scored_results[k].keyword_score = ScoreOne
                        /\ \A l \in 1..(k - 1) :
                              LET j == call.scored_results[l].candidate
                              IN \/ HasEveryKeyword(call, j)
                                 \/ call.semantic_results[j].score
                                      > call.semantic_results[i].score

\* the candidate with every keyword is ranked first although it is not the
\* nearest one, and a candidate of higher semantic score is ranked behind it
C18_Witness ==
    /\ kbLast.op = "hybrid_search"
    /\ kbLast.derived
    /\ kbLast.keywords # << >>
    /\ Len(kbLast.results) >= 2
    /\ HasEveryKeyword(kbLast, kbLast.results[1].candidate)
    /\ kbLast.results[1].candidate > 1
    /\ ~HasEveryKeyword(kbLast, kbLast.results[2].candidate)
    /\ kbLast.results[2].semantic_score > kbLast.results[1].semantic_score

----------------------------------------------------------------------------
(* Claims about the chunker.                                               *)

\* chunk_document has been applied
Chunked == chunkLast.op = "chunk_document"

\* the headers the call detects: those of the section pattern for a
\* specification, none for any other content type
DetectedHeaders ==
    IF chunkLast.content_type = "specification"
    THEN FindSectionHeaders(chunkLast.text, 0) ELSE << >>

\* the character at position i (0-based) of the input lies in chunk c at
\* offset j: the characters agree, and so do the neighbours of i that are
\* not whitespace and fall inside the chunk
LiesAt(text, i, c, j) ==
    /\ c[j] = CharAt(text, i)
    /\ \A d \in {-1, 1} :
           (CharAt(text, i + d) \notin Whitespace \cup {""}
            /\ j + d >= 1 /\ j + d <= Len(c))
           => c[j + d] = CharAt(text, i + d)
InSomeChunk(i) ==
    \E k \in 1..Len(chunkLast.chunks) :
        \E j \in 1..Len(chunkLast.chunks[k].text) :
            LiesAt(chunkLast.text, i, chunkLast.chunks[k].text, j)

\* the windows [start, end) of the loop of _split_by_size over text
RECURSIVE SplitWindows(_, _, _)
SplitWindows(cfg, text, start) ==
    IF ~(start < Len(text)) THEN << >>
    ELSE LET end0 == start + cfg.chunk_size
             break_point == RFindDotSpace(text, start + cfg.chunk_size \div 2,
                                          end0 + SentenceWindow)
             end == IF end0 < Len(text) /\ break_point > start
                    THEN break_point + 1 ELSE end0
         IN <<[start |-> start, end |-> end]>>
            \o SplitWindows(cfg, text, end - cfg.chunk_overlap)

\* the stretch [a, b) of the input that position i belongs to: the text
\* before the first header or the section of a header, or else the
\* paragraph between two blank lines
UnitStart(text, i) ==
    IF DetectedHeaders # << >>
    THEN SetMax({0} \cup {DetectedHeaders[k].start : k \in
                    {k \in 1..Len(DetectedHeaders) : DetectedHeaders[k].start <= i}})
    ELSE SetMax({0} \cup {ParagraphSeparatorEnd(text, q) : q \in
                    {q \in 0..(i - 1) : ParagraphSeparatorEnd(text, q) >= 0}})
UnitEnd(text, i) ==
    IF DetectedHeaders # << >>
    THEN SetMin({Len(text)} \cup {DetectedHeaders[k].start : k \in
                    {k \in 1..Len(DetectedHeaders) : DetectedHeaders[k].start > i}})
    ELSE SetMin({Len(text)} \cup
                    {q \in (i + 1)..(Len(text) - 1) : ParagraphSeparatorEnd(text, q) >= 0})

\* position i lies in a stretch that the claim lets the chunker drop: the
\* whole text, a section or the text before the first header, or a
\* paragraph (and so every buffer holding it) is shorter than
\* min_chunk_size, or i lies only in sub-chunks of an oversized section that
\* are
BelowFloor(i) ==
    LET cfg == chunkLast.cfg
        text == chunkLast.text
        a == UnitStart(text, i)
        unit == Strip(Slice(text, a, UnitEnd(text, i)))
        lead == SetMin({q \in a..i : CharAt(text, q) \notin Whitespace})
    IN \/ Len(Strip(text)) < cfg.min_chunk_size
       \/ Len(unit) < cfg.min_chunk_size
       \/ /\ DetectedHeaders # << >>
          /\ Len(unit) > cfg.chunk_size * 2
          /\ \E w \in SeqRange(SplitWindows(cfg, unit, 0)) :
                 /\ w.start <= i - lead /\ i - lead < w.end
                 /\ Len(Strip(Slice(unit, w.start, w.end))) < cfg.min_chunk_size

\* C19: for any input text and either content type, every non-whitespace
\* character of the input lies in the text of some emitted chunk, except
\* the characters of a section, buffer or sub-chunk shorter than
\* min_chunk_size; for a specification this includes the text before the
\* first detected header.
C19_ChunkCoverage ==
    Chunked =>
        \A i \in 0..(Len(chunkLast.text) - 1) :
            CharAt(chunkLast.text, i) \notin Whitespace
            => InSomeChunk(i) \/ BelowFloor(i)

\* the line of the input that starts at position p
LineAt(text, p) == Slice(text, p, RunEnd(text, p, SeqRange(text) \ {"\n"}))

\* the stripped section of the k-th detected header
SectionOf(k) ==
    Strip(Slice(chunkLast.text, DetectedHeaders[k].start,
                IF k < Len(DetectedHeaders) THEN DetectedHeaders[k + 1].start
                ELSE Len(chunkLast.text)))

\* the input is a specification whose detected headers are the two lines
\* and whose sections are neither below min_chunk_size nor oversized
TwoHeaderSpecification ==
    /\ Chunked
    /\ chunkLast.content_type = "specification"
    /\ Len(Strip(chunkLast.text)) >= chunkLast.cfg.min_chunk_size
    /\ Len(DetectedHeaders) = 2
    /\ LineAt(chunkLast.text, DetectedHeaders[1].start) = HeaderSectionIncludes
    /\ LineAt(chunkLast.text, DetectedHeaders[2].start) = HeaderRelatedRequirements
    /\ \A k \in 1..2 : /\ Len(SectionOf(k)) >= chunkLast.cfg.min_chunk_size
                       /\ Len(SectionOf(k)) <= 2 * chunkLast.cfg.chunk_size

\* C20: for a specification whose detected headers are the lines
\* "1.1 SECTION INCLUDES" and "1.2 RELATED REQUIREMENTS" and whose two
\* sections each have between min_chunk_size and 2 * chunk_size characters,
\* chunk_document returns exactly two chunks with chunk_index 0 and 1, and
\* the section_title of each is the full header line of its section.
C20_SectionChunking ==
    TwoHeaderSpecification =>
        /\ Len(chunkLast.chunks) = 2
        /\ \A k \in 1..2 :
               /\ chunkLast.chunks[k].chunk_index = k - 1
               /\ chunkLast.chunks[k].section_title
                      = LineAt(chunkLast.text, DetectedHeaders[k].start)

\* C21: with the default configuration every chunk emitted by
\* chunk_document, for any input text and any content type, has a text of
\* at most 2 * chunk_size (2000) characters.
C21_SizeBounded ==
    (Chunked /\ chunkLast.cfg = DefaultChunkerConfig)
    => \A k \in 1..Len(chunkLast.chunks) :
           Len(chunkLast.chunks[k].text) <= 2 * chunkLast.cfg.chunk_size

\* C30: for every text and every chunker configuration with
\* 0 <= chunk_overlap < chunk_size, each iteration of the loop of
\* _split_by_size strictly advances start, so the loop ends and
\* chunk_document returns a finite list for every oversized section.
C30_SplitAdvances ==
    [][SplitIteration => split'.start > split.start]_vars

----------------------------------------------------------------------------
(* Claims about index_document when it indexes nothing.                    *)

\* the step is a call of index_document: every operation of the knowledge
\* base leaves its own name in kbLast
IndexDocumentStep == kbLast'.op = "index_document"

\* the call of the step returns 0
IndexReturnsZero ==
    /\ IndexDocumentStep
    /\ kbLast'.outcome = "returned"
    /\ kbLast'.ret = 0

\* C22: whenever index_document returns 0, because the content is empty or
\* whitespace or because chunking produces no chunks, the vector store is
\* unchanged and the records indexed before for that file_id are still
\* present.
C22_RejectionNoOp ==
    [][IndexReturnsZero => store' = store]_vars

\* C27: if index_document raises because the embedding of the chunks
\* fails, the vector store is left as it was before the call, so the chunks
\* indexed before for that file_id are still present.
C27_FailedIndexingChangesNothing ==
    [][(IndexDocumentStep /\ kbLast'.outcome = "raised") => store' = store]_vars

----------------------------------------------------------------------------
(* Claims about the order of the queries of search_multi_query.            *)

\* the orders in which n queries can be listed
QueryOrders(n) == {f \in [1..n -> 1..n] : \A i, j \in 1..n : i # j => f[i] # f[j]}

\* the dict all_results of the call of kbLast made again on the same store
\* with its queries listed in the order f
FusedInOrder(f) ==
    FuseQueries(store[CollectionName(kbLast.project)],
                [i \in 1..Len(kbLast.queries) |-> kbLast.queries[f[i]]], 1,
                kbLast.n_results_per_query, kbLast.context_chars,
                kbLast.min_score, << >>)

\* the chunks of all_results, each with the score the call reports for it
ReportedScores(all_results) ==
    {<<all_results[i].key, CleanUp(all_results[i]).score>> :
        i \in 1..Len(all_results)}

\* search_multi_query has returned and max_total_results has cut nothing
UncutMultiQuery ==
    /\ kbLast.op = "search_multi_query"
    /\ Len(kbLast.all_results) <= kbLast.max_total_results

\* C29: for a fixed store, permuting the list of queries given to
\* search_multi_query changes neither the set of chunks returned nor the
\* score reported for any chunk, when max_total_results cuts nothing.
C29_QueryOrderIrrelevant ==
    UncutMultiQuery =>
        \A f \in QueryOrders(Len(kbLast.queries)) :
            ReportedScores(FusedInOrder(f)) = ReportedScores(kbLast.all_results)

\* C29 as amended: permuting the queries does not change the set of chunks
\* returned, nor the score reported for a chunk that at most two results
\* of the queries hit.
C29_OrderIrrelevantUpToTwoHits ==
    UncutMultiQuery =>
        \A f \in QueryOrders(Len(kbLast.queries)) :
            LET other == FusedInOrder(f)
            IN /\ {other[i].key : i \in 1..Len(other)}
                      = {kbLast.all_results[i].key : i \in 1..Len(kbLast.all_results)}
               /\ \A i \in 1..Len(kbLast.all_results) :
                      kbLast.all_results[i].match_count <= 2
                      => <<kbLast.all_results[i].key,
                           CleanUp(kbLast.all_results[i]).score>>
                             \in ReportedScores(other)

\* an uncut call with two different queries whose results hit one chunk
\* twice with two different scores, the lower one first
C29_Witness ==
    /\ UncutMultiQuery
    /\ \E i \in 1..Len(kbLast.all_results) :
           LET hits == KeyHits(kbLast, kbLast.all_results[i].key, 1)
           IN /\ kbLast.all_results[i].match_count = 2
              /\ Len(hits) = 2
              /\ hits[1] < hits[2]
              /\ CleanUp(kbLast.all_results[i]).score < ScoreOne

----------------------------------------------------------------------------
(* Claims about the metadata index.                                        *)

\* the step is a call of scan_directory, of index_file
ScanStep == mdLast'.op = "scan_directory" /\ scan_history' # scan_history
IndexFileStep == mdLast'.op = "index_file" /\ tree_stat' = tree_stat

\* the files of the tree that are not dot-files and not under a dot-directory
VisibleFiles ==
    {f \in TreeFiles : \A k \in (Len(RootPath) + 1)..Len(f) : f[k][1] # "."}

\* the rows of a table that describe one resolved path
RowsOf(rows, path) == {rows[i] : i \in {k \in 1..Len(rows) : rows[k].path = path}}

\* what a scan with the filter "filtered" (the visible files whose extension
\* the allow-list rules out) has to return and to leave alone
ScanKeepsAccount(filtered) ==
    LET s == mdLast'.returned
        passed == VisibleFiles \ filtered
    IN /\ s.files_found = s.files_indexed + s.files_skipped + s.errors
       /\ s.files_found = Cardinality(VisibleFiles)
       /\ s.files_skipped >= Cardinality(filtered)
       /\ s.files_indexed <= Cardinality(passed)
       /\ \A f \in filtered :
              (\A g \in passed : Resolve(g) # Resolve(f))
                  => RowsOf(catalog', Resolve(f)) = RowsOf(catalog, Resolve(f))
       /\ s.errors = Cardinality({f \in passed : mdLast'.fate[f] = "raises"})
       /\ s.files_indexed = Cardinality({f \in passed : mdLast'.fate[f] = "ok"})
       /\ \A f \in passed :
              mdLast'.fate[f] = "ok" => RowsOf(catalog', Resolve(f)) # {}

OutsideOf(exts) == {f \in VisibleFiles : SuffixExtension(f) \notin exts}

\* C23: scan_directory returns stats with files_found == files_indexed +
\* files_skipped + errors, files_found counts every file that is not a
\* dot-file and not under a dot-directory, a file whose extension is outside a
\* supplied allowed_extensions is counted as skipped and not indexed, and an
\* exception while indexing one file increments errors while the remaining
\* files are still processed.
C23_ScanAccounting ==
    [][ScanStep =>
          ScanKeepsAccount(IF mdLast'.allowed_extensions.supplied
                           THEN OutsideOf(mdLast'.allowed_extensions.exts)
                           ELSE {})]_vars

\* C23, amended: the same, where the files that are counted as skipped and
\* not indexed are those whose extension is outside a supplied, non-empty
\* allowed_extensions.
C23_ScanAccountingNonEmptyFilter ==
    [][ScanStep =>
          ScanKeepsAccount(IF /\ mdLast'.allowed_extensions.supplied
                              /\ mdLast'.allowed_extensions.exts # {}
                           THEN OutsideOf(mdLast'.allowed_extensions.exts)
                           ELSE {})]_vars

\* a scan of the 5 visible files of which 2 have disallowed extensions has
\* returned found=5, indexed=3, skipped=2, errors=0
C23_Witness ==
    /\ mdLast.op = "scan_directory"
    /\ mdLast.allowed_extensions = [supplied |-> TRUE, exts |-> {Pdf}]
    /\ Cardinality(OutsideOf({Pdf})) = 2
    /\ mdLast.returned = [files_found |-> 5, files_indexed |-> 3,
                          files_skipped |-> 2, errors |-> 0]

\* C24: after any sequence of index_file and scan_directory calls the catalog
\* holds at most one record per resolved path; indexing a path that is
\* already present updates the fields of its record in place and adds no
\* record, and project_id and project_name keep their stored value when the
\* call passes none for them.
C24_MetadataUpsert ==
    [][(ScanStep \/ IndexFileStep) =>
          /\ \A i, j \in 1..Len(catalog') :
                 catalog'[i].path = catalog'[j].path => i = j
          /\ \A i \in 1..Len(catalog') : catalog'[i].path = Resolve(catalog'[i].path)
          /\ Len(catalog') >= Len(catalog)
          /\ \A i \in 1..Len(catalog) :
                 /\ catalog'[i].id = catalog[i].id
                 /\ catalog'[i].path = catalog[i].path
                 /\ catalog'[i].created_at = catalog[i].created_at
                 /\ mdLast'.project_id = NoProjectId
                        => catalog'[i].project_id = catalog[i].project_id
                 /\ mdLast'.project_name = NoneText
                        => catalog'[i].project_name = catalog[i].project_name
          /\ (IndexFileStep /\ mdLast'.returned = "True") =>
                 LET path == mdLast'.path
                     present == RowsOf(catalog, Resolve(path)) # {}
                 IN /\ present => Len(catalog') = Len(catalog)
                    /\ ~present => Len(catalog') = Len(catalog) + 1
                    /\ \A row \in RowsOf(catalog', Resolve(path)) :
                           /\ row.filename = PathName(path)
                           /\ row.size_bytes = tree_stat[Resolve(path)].st_size
                           /\ row.modified_at = tree_stat[Resolve(path)].st_mtime
                           /\ mdLast'.project_id # NoProjectId
                                  => row.project_id = mdLast'.project_id
                           /\ mdLast'.project_name # NoneText
                                  => row.project_name = mdLast'.project_name]_vars

\* index_file of the link to a.pdf, without a project, has updated the one
\* record of a.pdf in place: the record of project 1 now carries the name of
\* the link and the new modification time
C24_Witness ==
    /\ mdLast.op = "index_file"
    /\ mdLast.returned = "True"
    /\ mdLast.path = Append(RootPath, LinkPdf)
    /\ mdLast.project_id = NoProjectId
    /\ mdLast.project_name = NoneText
    /\ Len(catalog) = 1
    /\ catalog[1].path = Append(RootPath, APdf)
    /\ catalog[1].filename = LinkPdf
    /\ catalog[1].project_id = 1
    /\ catalog[1].project_name = <<"o", "n", "e">>
    /\ catalog[1].created_at = 1
    /\ catalog[1].modified_at = 2

----------------------------------------------------------------------------
(* Claims about the byte counter and the lock of the content cache.        *)

\* C26: after any sequence of put, get, get_or_parse, invalidate and clear,
\* the gets that drop an entry included, _cache_size_bytes equals the sum of
\* the UTF-8 byte sizes of the contents of the entries in memory.
C26_ByteAccounting == _cache_size_bytes = MemoryBytes(_cache)

\* C25: every insert, eviction and promotion of the in-memory map is
\* performed while the cache lock is held, and no disk I/O (durable overflow
\* read or write, file stat) is performed while the lock is held, in get, put
\* and the eviction loop.
C25_LockDiscipline ==
    \A did \in lockLog :
        /\ did.event \in {"insert", "popitem", "move_to_end"} => did.locked
        /\ (/\ did.by \in {"get", "_get_from_disk", "put", "_add_to_memory"}
            /\ did.event \in {"stat", "exists", "open", "unlink", "_save_to_disk"})
               => ~did.locked

----------------------------------------------------------------------------
(* Claims about concurrent calls of index_document.                        *)

\* C28: when two index_document calls for the same file_id with different
\* contents run concurrently in the same project and both complete, the
\* records of the store for that file_id are exactly the chunk set of one of
\* the two contents, never a union or a mixture of chunks of both, for every
\* interleaving of their delete and add steps.
C28_ConcurrentReindex ==
    (\A c \in Callers : reindex[c].pc = "done")
        => FileRecords(store[CollectionName(ReindexTarget.project_id)], ReindexTarget.file_id)
               \in {CallRecords(reindex[c]) : c \in Callers}

====
